---------------------------- MODULE Spec2Model ----------------------------
(***************************************************************************)
(* MindFlow background service worker (background.js, the revision that    *)
(* starts at line 740 of src/unnamed/part_001): the per-tab DSI score      *)
(* engine, its 1 Hz timers, the message handlers and the tab lifecycle.    *)
(*                                                                         *)
(* Numbers.  The source computes the score with IEEE doubles.  The model   *)
(* keeps every score-valued quantity in thousandths (35 is 35000, the      *)
(* delta -0.4 is -400) and truncates products toward zero, so that         *)
(* dsi * 0.05 is dsi \div 20.  Rates that scale a quantity are per-mille   *)
(* integers (1.3 is 1300).  Entropy is kept in tenths (0.5 is 5).          *)
(***************************************************************************)
EXTENDS Integers, Sequences, FiniteSets, Bags, TLC

(***************************************************************************)
(* DSI_CONFIG                                                              *)
(***************************************************************************)
SCROLL_SPEED_THRESHOLD == 2000
SCROLL_SPEED_CHAOTIC == 3000
CLICK_FREQUENCY_THRESHOLD == 3
CLICK_FREQUENCY_CHAOTIC == 5
DIRECTION_CHANGE_CHAOTIC == 2
RAGE_CLICK_THRESHOLD == 2

SCROLL_INCREMENT == 1500
SCROLL_CHAOTIC_INCREMENT == 5000
CLICK_INCREMENT == 2000
CLICK_CHAOTIC_INCREMENT == 8000
FLOW_RECOVERY == 1000
ACTIVE_RECOVERY_BASE == 500

FLOW_ZONE_MIN == 40000
FLOW_ZONE_MAX == 60000

DECAY_DELAY == 2500
DEEP_READING_THRESHOLD == 10000
DECAY_BASE_RATE == 600
THERAPY_BONUS == 3000

LEVEL_1_THRESHOLD == 35000
LEVEL_2_THRESHOLD == 65000
LEVEL_2_SUGGEST == 72000
LEVEL_3_THRESHOLD == 85000
MAX_DSI == 100000
MIN_DSI == 0

\* x * DSI_CONFIG.DECAY_FACTOR (0.05)
TimesDecayFactor(x) == (x * 50) \div 1000

PageTypes == {"social", "news", "video", "document", "shopping", "other"}

\* DSI_CONFIG.DECAY_MULTIPLIERS[pageType] || 1.0, per mille
DECAY_MULTIPLIERS(pageType) ==
  CASE pageType = "video" -> 500
    [] pageType = "document" -> 300
    [] pageType = "shopping" -> 800
    [] OTHER -> 1000

\* DSI_CONFIG.CONTEXT_WEIGHTS[pageType] || 1.0, per mille
getContextCoefficient(pageType) ==
  CASE pageType = "social" -> 1300
    [] pageType = "news" -> 1200
    [] pageType = "video" -> 600
    [] pageType = "document" -> 500
    [] pageType = "shopping" -> 1100
    [] OTHER -> 1000

\* a * r for a per-mille rate r
Scaled(a, r) == (a * r) \div 1000

Min(a, b) == IF a < b THEN a ELSE b
Max(a, b) == IF a > b THEN a ELSE b

(***************************************************************************)
(* Bounds of the model                                                     *)
(***************************************************************************)
\* updateDSI evaluations in one behaviour
MaxTicks == 3
\* content-script events whose messages are handled in one behaviour
MaxMsgs == 2
\* updateDSI evaluations and handled messages together in one behaviour
MaxEvents == 4
\* invocations of an async handler suspended at the same time, per tab
MaxPending == 2

Tabs == {1}

NoState == [exists |-> FALSE]

\* the time since state.lastActivityTime saturates just above the largest
\* value the code compares it with
MaxSince == DEEP_READING_THRESHOLD + 1

(***************************************************************************)
(* initTabState: the fresh state object.  sinceActivity stands for         *)
(* Date.now() - state.lastActivityTime, the only way the code reads        *)
(* lastActivityTime.                                                       *)
(***************************************************************************)
FreshState ==
  [ dsi |-> 0,
    sinceActivity |-> 0,
    isTherapyActive |-> FALSE,
    isReaderModeActive |-> FALSE,
    currentLevel |-> 0,
    scrollSpeed |-> 0,
    clickFrequency |-> 0,
    directionChanges |-> 0,
    rageClickCount |-> 0,
    isIdle |-> FALSE,
    isDeepReading |-> FALSE,
    pageType |-> "other",
    entropyScore |-> 0,
    contextCoefficient |-> 1000,
    suggestionShown |-> FALSE ]

\* faulty variant: the sum is not capped
calculateEntropyScore_NoCap(s) ==
  LET e1 == IF s.directionChanges > DIRECTION_CHANGE_CHAOTIC THEN 5 ELSE 0
      e2 == IF s.rageClickCount > RAGE_CLICK_THRESHOLD THEN 5 ELSE 0
      e3 == IF s.scrollSpeed > SCROLL_SPEED_CHAOTIC THEN 3
            ELSE IF s.scrollSpeed > SCROLL_SPEED_THRESHOLD THEN 1 ELSE 0
      e4 == IF s.clickFrequency > CLICK_FREQUENCY_CHAOTIC THEN 3 ELSE 0
  IN  e1 + e2 + e3 + e4

\* entropy in tenths
calculateEntropyScore(s) ==
  LET e1 == IF s.directionChanges > DIRECTION_CHANGE_CHAOTIC THEN 5 ELSE 0
      e2 == IF s.rageClickCount > RAGE_CLICK_THRESHOLD THEN 5 ELSE 0
      e3 == IF s.scrollSpeed > SCROLL_SPEED_CHAOTIC THEN 3
            ELSE IF s.scrollSpeed > SCROLL_SPEED_THRESHOLD THEN 1 ELSE 0
      e4 == IF s.clickFrequency > CLICK_FREQUENCY_CHAOTIC THEN 3 ELSE 0
  IN  Min(10, e1 + e2 + e3 + e4)

isInFlowZone(dsi) == dsi >= FLOW_ZONE_MIN /\ dsi <= FLOW_ZONE_MAX

READER_MODE_TARGET_MIN == 45000
READER_MODE_TARGET_MAX == 55000
LEVEL_1_FLOOR == 25000
level1ExitThreshold == 20000

\* the noise floor of isMeaningfulActivity (px/s)
isMeaningfulActivity(s) == s.scrollSpeed > 50 \/ s.clickFrequency > 0

\* faulty variant: only the decay above the band, no nudge below it
ReaderDelta_NoNudge(s) ==
  LET baseDecay == Scaled(Scaled(DECAY_BASE_RATE, 300), DECAY_MULTIPLIERS(s.pageType))
  IN  IF s.dsi > READER_MODE_TARGET_MAX THEN -baseDecay ELSE 0

\* branch 2 of calculateDSIDelta: reader mode pulls the score into the band
ReaderDelta(s) ==
  LET baseDecay == Scaled(Scaled(DECAY_BASE_RATE, 300), DECAY_MULTIPLIERS(s.pageType))
  IN  IF s.dsi >= READER_MODE_TARGET_MIN /\ s.dsi <= READER_MODE_TARGET_MAX THEN 0
      ELSE IF s.dsi > READER_MODE_TARGET_MAX THEN -baseDecay
      ELSE 200

\* faulty variant: the speed and frequency thresholds are looked at before
\* the reversal and rage-click counts
ActiveDelta_SpeedFirst(s) ==
  LET contextCoeff == IF s.contextCoefficient = 0 THEN 1000 ELSE s.contextCoefficient
      activeRecovery == IF s.dsi > 70000 THEN Scaled(ACTIVE_RECOVERY_BASE, 1500)
                        ELSE ACTIVE_RECOVERY_BASE
  IN  IF s.scrollSpeed > SCROLL_SPEED_CHAOTIC
        THEN Scaled(SCROLL_INCREMENT, contextCoeff)
      ELSE IF s.clickFrequency > CLICK_FREQUENCY_THRESHOLD
        THEN Scaled(CLICK_INCREMENT, contextCoeff)
      ELSE IF s.directionChanges > DIRECTION_CHANGE_CHAOTIC
        THEN Scaled(SCROLL_CHAOTIC_INCREMENT, contextCoeff)
      ELSE IF s.rageClickCount > RAGE_CLICK_THRESHOLD
        THEN Scaled(CLICK_CHAOTIC_INCREMENT, contextCoeff)
      ELSE IF s.scrollSpeed > SCROLL_SPEED_THRESHOLD /\ s.scrollSpeed <= SCROLL_SPEED_CHAOTIC
        THEN Scaled(500, contextCoeff)
      ELSE IF isInFlowZone(s.dsi) THEN -FLOW_RECOVERY
      ELSE -activeRecovery

\* branch 3, active: chaotic increments or orderly recovery
ActiveDelta(s) ==
  LET contextCoeff == IF s.contextCoefficient = 0 THEN 1000 ELSE s.contextCoefficient
      activeRecovery == IF s.dsi > 70000 THEN Scaled(ACTIVE_RECOVERY_BASE, 1500)
                        ELSE ACTIVE_RECOVERY_BASE
  IN  IF s.directionChanges > DIRECTION_CHANGE_CHAOTIC
        THEN Scaled(SCROLL_CHAOTIC_INCREMENT, contextCoeff)
      ELSE IF s.rageClickCount > RAGE_CLICK_THRESHOLD
        THEN Scaled(CLICK_CHAOTIC_INCREMENT, contextCoeff)
      ELSE IF s.scrollSpeed > SCROLL_SPEED_CHAOTIC
        THEN Scaled(SCROLL_INCREMENT, contextCoeff)
      ELSE IF s.clickFrequency > CLICK_FREQUENCY_THRESHOLD
        THEN Scaled(CLICK_INCREMENT, contextCoeff)
      ELSE IF s.scrollSpeed > SCROLL_SPEED_THRESHOLD /\ s.scrollSpeed <= SCROLL_SPEED_CHAOTIC
        THEN Scaled(500, contextCoeff)
      ELSE IF isInFlowZone(s.dsi) THEN -FLOW_RECOVERY
      ELSE -activeRecovery

\* branch 3, idle, case C: natural decay
NaturalDecay(s) ==
  LET d0 == Scaled(DECAY_BASE_RATE + TimesDecayFactor(s.dsi), DECAY_MULTIPLIERS(s.pageType))
      d1 == IF isInFlowZone(s.dsi) THEN d0 \div 2 ELSE d0
  IN  IF d1 < 100 /\ d1 > 0 /\ s.dsi > 0 THEN 100 ELSE d1

IdleGrace(s) == s.sinceActivity < DECAY_DELAY

\* faulty variant: deep reading is never recognised
IdleDeepReading_Never(s) == FALSE

IdleDeepReading(s) ==
  /\ s.pageType \in {"document", "news"}
  /\ s.sinceActivity > DEEP_READING_THRESHOLD

IdleDelta(s) ==
  IF IdleGrace(s) THEN 0
  ELSE IF IdleDeepReading(s) THEN -400
  ELSE -NaturalDecay(s)

\* faulty variant: the floor holds at every level above 0
Level1Floor_AnyLevel(s, delta) ==
  IF s.currentLevel >= 1 /\ delta < 0 /\ s.dsi + delta < LEVEL_1_FLOOR
    THEN IF s.dsi > LEVEL_1_FLOOR THEN -(s.dsi - LEVEL_1_FLOOR) ELSE 0
    ELSE delta

\* faulty variant: the delta of branch 3 is used as it is
Level1Floor_FallsThrough(s, delta) == delta

\* branch 4: the level-1 floor applied to the delta of branch 3
Level1Floor(s, delta) ==
  IF s.currentLevel = 1 /\ delta < 0 /\ s.dsi + delta < LEVEL_1_FLOOR
    THEN IF s.dsi > LEVEL_1_FLOOR THEN -(s.dsi - LEVEL_1_FLOOR) ELSE 0
    ELSE delta

TherapyDelta(s) == -(THERAPY_BONUS + TimesDecayFactor(s.dsi))

\* faulty variant: the reader lock is looked at before the therapy lock
calculateDSIDelta_ReaderFirst(s) ==
  LET s1 == [s EXCEPT !.entropyScore = calculateEntropyScore(s)]
  IN  IF s.isReaderModeActive THEN [delta |-> ReaderDelta(s1), state |-> s1]
      ELSE IF s.isTherapyActive THEN [delta |-> TherapyDelta(s1), state |-> s1]
      ELSE IF isMeaningfulActivity(s1)
        THEN [delta |-> Level1Floor(s1, ActiveDelta(s1)),
              state |-> [s1 EXCEPT !.isIdle = FALSE, !.isDeepReading = FALSE]]
      ELSE [delta |-> Level1Floor(s1, IdleDelta(s1)),
            state |-> IF IdleGrace(s1) THEN s1
                      ELSE IF IdleDeepReading(s1) THEN [s1 EXCEPT !.isDeepReading = TRUE]
                      ELSE [s1 EXCEPT !.isIdle = TRUE]]

\* calculateDSIDelta returns the delta and, on the way, writes entropyScore,
\* isIdle and isDeepReading of the state object: both are given here.
calculateDSIDelta(s) ==
  LET s1 == [s EXCEPT !.entropyScore = calculateEntropyScore(s)]
  IN  IF s.isTherapyActive THEN [delta |-> TherapyDelta(s1), state |-> s1]
      ELSE IF s.isReaderModeActive THEN [delta |-> ReaderDelta(s1), state |-> s1]
      ELSE IF isMeaningfulActivity(s1)
        THEN [delta |-> Level1Floor(s1, ActiveDelta(s1)),
              state |-> [s1 EXCEPT !.isIdle = FALSE, !.isDeepReading = FALSE]]
      ELSE [delta |-> Level1Floor(s1, IdleDelta(s1)),
            state |-> IF IdleGrace(s1) THEN s1
                      ELSE IF IdleDeepReading(s1) THEN [s1 EXCEPT !.isDeepReading = TRUE]
                      ELSE [s1 EXCEPT !.isIdle = TRUE]]

\* faulty variant: the upper limit is forgotten
clampDSI_NoUpper(x) == Max(MIN_DSI, x)

clampDSI(x) == Max(MIN_DSI, Min(MAX_DSI, x))

(***************************************************************************)
(* State                                                                   *)
(***************************************************************************)
VARIABLES
  tabOpen,          \* the browser's tabs: TRUE until the tab is closed
  tabStates,        \* Map tabId -> TabState (NoState: no entry)
  updateIntervals,  \* Map tabId -> intervalId (0: no entry)
  intervals,        \* the host's live setInterval timers, <<intervalId, tabId>>
  pending,          \* per tab, the bag of suspended async invocations
  storage,          \* keys present in chrome.storage.local, <<name, tabId>>
  emitted,          \* messages sent to the content script by the last step
  lastAnnounced,    \* per tab, the level of the last INTERVENTION sent
  sugCount,         \* per tab, SUGGESTIONs sent since the last low tick
  last,             \* the last operation: its name, tab and the level before it
  nTicks,           \* updateDSI evaluations so far
  nMsgs,            \* runtime messages handled so far
  completionInFlight, \* per tab: THERAPY_COMPLETED is sent and not yet handled
  monitor,          \* the content script's BehaviorMonitor object
  manager           \* the content script's InterventionManager object and the
                    \* messages in flight between it and the background

vars == <<tabOpen, tabStates, updateIntervals, intervals, pending, storage,
          emitted, lastAnnounced, sugCount, last, nTicks, nMsgs,
          completionInFlight, monitor, manager>>

SnapshotKeys == {"dsi", "level", "entropy", "inFlow"}

hasState(t) == tabStates[t] # NoState
hasTimer(t) == updateIntervals[t] # 0

\* getTabState: the entry, initialised first when there is none
getTabState(t) == IF hasState(t) THEN tabStates[t] ELSE FreshState

levelOf(t) == getTabState(t).currentLevel

Intervention(t, level) == [type |-> "INTERVENTION", tab |-> t, level |-> level]
Suggestion(t) == [type |-> "SUGGESTION", tab |-> t, level |-> -1]

Interventions(evs) == SelectSeq(evs, LAMBDA e : e.type = "INTERVENTION")
Suggestions(evs) == SelectSeq(evs, LAMBDA e : e.type = "SUGGESTION")

\* the level carried by the last INTERVENTION of evs for tab t, else old
AnnouncedAfter(evs, t, old) ==
  LET mine == SelectSeq(evs, LAMBDA e : e.type = "INTERVENTION" /\ e.tab = t)
  IN  IF mine = <<>> THEN old ELSE mine[Len(mine)].level

(***************************************************************************)
(* updateDSI                                                               *)
(***************************************************************************)
\* faulty variant: reader mode does not pin the level
deriveLevel_NoReader(s) ==
  IF s.dsi > LEVEL_3_THRESHOLD THEN 3
  ELSE IF s.dsi > LEVEL_2_SUGGEST THEN 2
  ELSE IF s.dsi > LEVEL_1_THRESHOLD THEN 1
  ELSE IF s.currentLevel = 1 /\ s.dsi > level1ExitThreshold THEN 1
  ELSE 0

\* faulty variant: level 1 is left at its entry threshold
deriveLevel_NoHysteresis(s) ==
  IF s.isReaderModeActive
    THEN IF s.dsi > LEVEL_3_THRESHOLD THEN 3 ELSE 2
  ELSE IF s.dsi > LEVEL_3_THRESHOLD THEN 3
  ELSE IF s.dsi > LEVEL_2_SUGGEST THEN 2
  ELSE IF s.dsi > LEVEL_1_THRESHOLD THEN 1
  ELSE 0

\* the level of the reader-mode branch and of the standard thresholds
deriveLevel(s) ==
  IF s.isReaderModeActive
    THEN IF s.dsi > LEVEL_3_THRESHOLD THEN 3 ELSE 2
  ELSE IF s.dsi > LEVEL_3_THRESHOLD THEN 3
  ELSE IF s.dsi > LEVEL_2_SUGGEST THEN 2
  ELSE IF s.dsi > LEVEL_2_THRESHOLD THEN 1
  ELSE IF s.dsi > LEVEL_1_THRESHOLD THEN 1
  ELSE IF s.currentLevel = 1 /\ s.dsi > level1ExitThreshold THEN 1
  ELSE 0

\* the suggestion of the standard thresholds ("none": null)
deriveSuggestion(s) ==
  IF s.isReaderModeActive \/ s.dsi > LEVEL_3_THRESHOLD THEN "none"
  ELSE IF s.dsi > LEVEL_2_SUGGEST THEN "strong"
  ELSE IF s.dsi > LEVEL_2_THRESHOLD THEN "gentle"
  ELSE "none"

\* lines 1231-1240: the suggestion flag reset and the feature reset
resetAfterTick(s) ==
  [s EXCEPT !.suggestionShown = IF s.dsi < LEVEL_2_THRESHOLD THEN FALSE ELSE @,
            !.scrollSpeed = 0,
            !.clickFrequency = 0,
            !.directionChanges = 0,
            !.rageClickCount = 0]

\* the score update of lines 1139-1145
applyDelta(s) ==
  LET r == calculateDSIDelta(s)
  IN  [r.state EXCEPT !.dsi = clampDSI(r.state.dsi + r.delta)]

\* faulty variant: therapy does not pin the level
lockedLevel_FromScore(s) == deriveLevel(s)

\* the tick's new level: therapy pins it to 3 before anything else is looked at
lockedLevel(s) == IF s.isTherapyActive THEN 3 ELSE deriveLevel(s)

\* faulty variant: every tick announces its level
levelChanged_Always(s, newLevel) == TRUE

\* line 1220: the tick announces a level that differs from the session's
levelChanged(s, newLevel) == newLevel # s.currentLevel

\* line 1226: a suggestion is due and none is pending
suggestionDue(s) == deriveSuggestion(s) # "none" /\ ~s.suggestionShown

\* updateDSI from its entry to its first await (or its return): the state
\* object after it, the messages sent, where it is suspended ("done": it
\* returned) and whether it has called chrome.storage.local.set.
updateDSI(t, s0) ==
  LET s == applyDelta(s0)
  IN  IF s.isTherapyActive
        THEN IF s.currentLevel = 3
               THEN [state |-> s, sent |-> <<>>, pc |-> "done", stored |-> FALSE]
               ELSE [state |-> [s EXCEPT !.currentLevel = lockedLevel(s)],
                     sent |-> <<Intervention(t, lockedLevel(s))>>,
                     pc |-> "awaitTherapyIntervention", stored |-> FALSE]
      ELSE IF levelChanged(s, lockedLevel(s))
        THEN [state |-> [s EXCEPT !.currentLevel = lockedLevel(s)],
              sent |-> <<Intervention(t, lockedLevel(s))>>,
              pc |-> "awaitIntervention", stored |-> FALSE]
      ELSE IF suggestionDue(s)
        THEN [state |-> s, sent |-> <<Suggestion(t)>>,
              pc |-> "awaitSuggestion", stored |-> FALSE]
      ELSE [state |-> resetAfterTick(s), sent |-> <<>>,
            pc |-> "awaitStorage", stored |-> TRUE]

\* a suspended invocation: the handler, where it waits, and whether the state
\* object it holds is no longer the map's entry for the tab
Invocation(handler, pc) == [handler |-> handler, pc |-> pc, detached |-> FALSE]

nPending(t) == BagCardinality(pending[t])

Suspend(t, inv) == pending[t] (+) SetToBag({inv})

\* initTabState and tabStates.delete replace or drop the map's entry: every
\* suspended invocation of the tab keeps the old object
Detach(bag) ==
  LET items == BagToSet(bag)
      moved(i) == [i EXCEPT !.detached = TRUE]
      count(j) == LET from == {i \in items : moved(i) = j}
                      n[S \in SUBSET from] ==
                        IF S = {} THEN 0
                        ELSE LET x == CHOOSE x \in S : TRUE
                             IN  CopiesIn(x, bag) + n[S \ {x}]
                  IN  n[from]
  IN  [j \in {moved(i) : i \in items} |-> count(j)]

KeysOf(t, names) == {<<k, t>> : k \in names}

(***************************************************************************)
(* Inputs                                                                  *)
(***************************************************************************)
\* BEHAVIOR_DATA payloads (reportBehavior sends one only when scrollSpeed or
\* clickFrequency is positive): orderly scroll, and yo-yo scroll with rage
\* clicks and chaotic clicking
Reports ==
  { [scrollSpeed |-> 500, clickFrequency |-> 0, directionChanges |-> 0, rageClickCount |-> 0],
    [scrollSpeed |-> 1000, clickFrequency |-> 6, directionChanges |-> 3, rageClickCount |-> 3] }

\* DEBUG_SET_DSI payloads: the debug slider sends parseInt of 0..100
DebugValues == {20, 30, 70, 100}

\* a URL, as the set of keyword lists it matches
Urls == { {}, {"SOCIAL_DOMAINS", "VIDEO_DOMAINS"}, {"DOC_DOMAINS"} }

\* the milliseconds by which the clock advances between two steps
TimeSteps == {6000}

detectPageType(url) ==
  IF "SOCIAL_DOMAINS" \in url THEN "social"
  ELSE IF "NEWS_DOMAINS" \in url THEN "news"
  ELSE IF "VIDEO_DOMAINS" \in url THEN "video"
  ELSE IF "DOC_DOMAINS" \in url THEN "document"
  ELSE IF "shop" \in url THEN "shopping"
  ELSE "other"

(***************************************************************************)
(* The content script's BehaviorMonitor.  Times are kept as distances: the  *)
(* events of a window by the milliseconds between them and the newest one,  *)
(* the newest one by the milliseconds since it (sinceScroll, sinceClick),   *)
(* which saturate above the largest span the code compares them with.       *)
(***************************************************************************)
SCROLL_WINDOW_SIZE == 500
CLICK_WINDOW_SIZE == 1000

\* this.lastClickTime is never initialised: every comparison with it is false
Undefined == -1

MaxAge == CLICK_WINDOW_SIZE + 1

\* the constructor
FreshMonitor ==
  [ scrollEvents |-> <<>>,
    clickEvents |-> <<>>,
    lastScrollPosition |-> 0,
    sinceScroll |-> 0,
    scrollDirection |-> 0,
    directionChanges |-> 0,
    lastClickPosition |-> <<0, 0>>,
    sinceClick |-> Undefined,
    rageClickCount |-> 0,
    responses |-> 0,
    sample |-> [sent |-> FALSE, directionChanges |-> 0],
    quietReports |-> 0,
    rapidRun |-> 0,
    nClicks |-> 0,
    nScrolls |-> 0,
    nReports |-> 0 ]

\* the constructor of the InterventionManager; toContent holds the levels of
\* the INTERVENTION messages on their way to the page, toBackground the
\* messages on their way from the page to the background
FreshManager ==
  [ currentLevel |-> 0,
    softModeActive |-> FALSE,
    readerModeActive |-> FALSE,
    therapyActive |-> FALSE,
    asking |-> FALSE,
    toContent |-> <<>>,
    toBackground |-> <<>> ]

(***************************************************************************)
(* Bookkeeping shared by the actions                                       *)
(***************************************************************************)
\* what every step records: the messages it sent and, for an evaluation of
\* updateDSI, the level it found; a call of startDSITimer and a therapy
\* completion that applied the rebate are recorded by name
Noted == {"tick", "DEBUG_SET_DSI"}

Record(op, t, evs) ==
  /\ last' = IF op \in Noted
               THEN [op |-> op, tab |-> t, level0 |-> levelOf(t)]
               ELSE IF op \in {"startDSITimer", "therapyRebate"}
                      THEN [op |-> op, tab |-> t, level0 |-> -1]
                      ELSE [op |-> "other", tab |-> 0, level0 |-> -1]
  /\ emitted' = evs
  /\ lastAnnounced' = [u \in Tabs |-> AnnouncedAfter(evs, u, lastAnnounced[u])]

\* the state after construction of everything but tabStates
InitRest ==
  /\ tabOpen = [t \in Tabs |-> TRUE]
  /\ updateIntervals = [t \in Tabs |-> 0]
  /\ intervals = {}
  /\ pending = [t \in Tabs |-> EmptyBag]
  /\ storage = {}
  /\ emitted = <<>>
  /\ lastAnnounced = [t \in Tabs |-> 0]
  /\ sugCount = [t \in Tabs |-> 0]
  /\ last = [op |-> "other", tab |-> 0, level0 |-> -1]
  /\ nTicks = 0
  /\ nMsgs = 0
  /\ completionInFlight = [t \in Tabs |-> FALSE]
  /\ monitor = FreshMonitor
  /\ manager = FreshManager

Init ==
  /\ tabStates = [t \in Tabs |-> NoState]
  /\ InitRest

(***************************************************************************)
(* Timers and the tab lifecycle                                            *)
(***************************************************************************)
\* setInterval: a fresh id
newIntervalId == CHOOSE i \in 1..(Cardinality(intervals) + 1) :
                   \A x \in intervals : x[1] # i

\* faulty variant: the has() guard is missing
startDSITimer_NoGuard(t) ==
  /\ tabOpen[t]
  /\ tabStates' = [tabStates EXCEPT ![t] = FreshState]
  /\ pending' = [pending EXCEPT ![t] = Detach(@)]
  /\ intervals' = intervals \cup {<<newIntervalId, t>>}
  /\ updateIntervals' = [updateIntervals EXCEPT ![t] = newIntervalId]
  /\ sugCount' = [sugCount EXCEPT ![t] = 0]
  /\ Record("startDSITimer", t, <<>>)
  /\ UNCHANGED <<monitor, manager, completionInFlight, tabOpen, storage, nTicks, nMsgs>>

\* startDSITimer, called by tabs.onUpdated (status complete) and by
\* tabs.onActivated
startDSITimer(t) ==
  /\ tabOpen[t]
  /\ IF hasTimer(t)
       THEN UNCHANGED <<tabStates, updateIntervals, intervals, pending, sugCount>>
       ELSE /\ tabStates' = [tabStates EXCEPT ![t] = FreshState]
            /\ pending' = [pending EXCEPT ![t] = Detach(@)]
            /\ intervals' = intervals \cup {<<newIntervalId, t>>}
            /\ updateIntervals' = [updateIntervals EXCEPT ![t] = newIntervalId]
            /\ sugCount' = [sugCount EXCEPT ![t] = 0]
  /\ Record("startDSITimer", t, <<>>)
  /\ UNCHANGED <<monitor, manager, completionInFlight, tabOpen, storage, nTicks, nMsgs>>

\* faulty variant: the map's entry is deleted, the interval is left running
stopDSITimer_NoClear(t) ==
  /\ intervals' = intervals
  /\ updateIntervals' = [updateIntervals EXCEPT ![t] = 0]

\* stopDSITimer: the map's interval is cleared and its entry deleted
stopDSITimer(t) ==
  IF updateIntervals[t] # 0
    THEN /\ intervals' = {x \in intervals : x[1] # updateIntervals[t]}
         /\ updateIntervals' = [updateIntervals EXCEPT ![t] = 0]
    ELSE UNCHANGED <<intervals, updateIntervals>>

\* the keys the tabs.onRemoved listener removes from storage
RemovedKeys == {"dsi", "level"}

\* the tabs.onRemoved listener
onRemoved(t) ==
  /\ tabOpen[t]
  /\ tabOpen' = [tabOpen EXCEPT ![t] = FALSE]
  /\ stopDSITimer(t)
  /\ tabStates' = [tabStates EXCEPT ![t] = NoState]
  /\ pending' = [pending EXCEPT ![t] = Detach(@)]
  /\ storage' = storage \ KeysOf(t, RemovedKeys)
  /\ completionInFlight' = [completionInFlight EXCEPT ![t] = FALSE]
  /\ Record("onRemoved", t, <<>>)
  /\ UNCHANGED <<monitor, manager, sugCount, nTicks, nMsgs>>

\* Date.now() moves on
TimePasses(d) ==
  /\ \E t \in Tabs : hasState(t) /\ tabStates[t].sinceActivity < MaxSince
  /\ tabStates' = [t \in Tabs |->
       IF hasState(t)
         THEN [tabStates[t] EXCEPT !.sinceActivity = Min(MaxSince, @ + d)]
         ELSE NoState]
  /\ last' = [op |-> "other", tab |-> 0, level0 |-> -1]
  /\ emitted' = <<>>
  /\ UNCHANGED <<monitor, manager, completionInFlight, tabOpen, updateIntervals, intervals, pending, storage,
                 lastAnnounced, sugCount, nTicks, nMsgs>>

(***************************************************************************)
(* Ticks                                                                   *)
(***************************************************************************)
\* SUGGESTIONs since the last evaluation that ended below LEVEL_2_THRESHOLD
CountSuggestions(t, r) ==
  [sugCount EXCEPT ![t] = (IF r.state.dsi < LEVEL_2_THRESHOLD THEN 0 ELSE @)
                          + Len(Suggestions(r.sent))]

\* one call of updateDSI(t) on state object s0, up to its first await
RunUpdateDSI(op, t, s0) ==
  LET r == updateDSI(t, s0)
  IN  /\ nPending(t) < MaxPending
      /\ nTicks' = nTicks + 1
      /\ tabStates' = [tabStates EXCEPT ![t] = r.state]
      /\ pending' = IF r.pc = "done" THEN pending
                    ELSE [pending EXCEPT ![t] = Suspend(t, Invocation("updateDSI", r.pc))]
      /\ storage' = IF r.stored THEN storage \cup KeysOf(t, SnapshotKeys) ELSE storage
      /\ sugCount' = CountSuggestions(t, r)
      /\ Record(op, t, r.sent)

\* the setInterval callback of startDSITimer
TimerFires(t) ==
  /\ \E x \in intervals : x[2] = t
  /\ nTicks < MaxTicks
  /\ nTicks + nMsgs < MaxEvents
  /\ RunUpdateDSI("tick", t, getTabState(t))
  /\ UNCHANGED <<monitor, manager, completionInFlight, tabOpen, updateIntervals, intervals, nMsgs>>

\* a suspended invocation inv of tab t goes on to its next await or its end
Resume(t, inv) ==
  LET rest == pending[t] (-) SetToBag({inv})
      goesOn == inv.pc \in {"awaitIntervention", "awaitSuggestion"}
      \* updateDSI after its message was delivered or failed: lines 1228-1248
      s == IF inv.pc = "awaitSuggestion"
             THEN [tabStates[t] EXCEPT !.suggestionShown = TRUE]
             ELSE tabStates[t]
      writes == IF ~goesOn THEN {}
                ELSE IF inv.handler = "updateDSI" THEN SnapshotKeys
                ELSE {"dsi", "level"}
  IN  /\ BagIn(inv, pending[t])
      /\ pending' = [pending EXCEPT ![t] =
           IF goesOn THEN rest (+) SetToBag({[inv EXCEPT !.pc = "awaitStorage"]})
           ELSE rest]
      /\ tabStates' = IF goesOn /\ inv.handler = "updateDSI" /\ ~inv.detached
                        THEN [tabStates EXCEPT ![t] = resetAfterTick(s)]
                        ELSE tabStates
      /\ storage' = storage \cup KeysOf(t, writes)
      /\ Record("resume", t, <<>>)
      /\ UNCHANGED <<monitor, manager, completionInFlight, tabOpen, updateIntervals, intervals, sugCount, nTicks, nMsgs>>

(***************************************************************************)
(* chrome.runtime.onMessage                                                *)
(***************************************************************************)
\* the listener runs for a message of an open tab
Message(t) ==
  /\ tabOpen[t]
  /\ nMsgs < MaxMsgs
  /\ nTicks + nMsgs < MaxEvents
  /\ nMsgs' = nMsgs + 1

handleBehaviorData(s, data) ==
  [s EXCEPT !.scrollSpeed = Max(@, data.scrollSpeed),
            !.clickFrequency = Max(@, data.clickFrequency),
            !.sinceActivity = 0,
            !.directionChanges = data.directionChanges,
            !.rageClickCount = data.rageClickCount]

BEHAVIOR_DATA(t, data) ==
  /\ Message(t)
  /\ tabStates' = [tabStates EXCEPT ![t] = handleBehaviorData(getTabState(t), data)]
  /\ Record("BEHAVIOR_DATA", t, <<>>)
  /\ UNCHANGED <<monitor, manager, completionInFlight, tabOpen, updateIntervals, intervals, pending, storage, sugCount, nTicks>>

GET_DSI(t) ==
  /\ Message(t)
  /\ tabStates' = [tabStates EXCEPT ![t] = getTabState(t)]
  /\ Record("GET_DSI", t, <<>>)
  /\ UNCHANGED <<monitor, manager, completionInFlight, tabOpen, updateIntervals, intervals, pending, storage, sugCount, nTicks>>

\* initTabState(tabId) with the fields set on the new object afterwards
Reinit(op, t, s) ==
  /\ Message(t)
  /\ tabStates' = [tabStates EXCEPT ![t] = s]
  /\ pending' = [pending EXCEPT ![t] = Detach(@)]
  /\ sugCount' = [sugCount EXCEPT ![t] = 0]
  /\ Record(op, t, <<>>)
  /\ UNCHANGED <<monitor, manager, completionInFlight, tabOpen, updateIntervals, intervals, storage, nTicks>>

RESET_DSI(t) == Reinit("RESET_DSI", t, FreshState)

withPageType(s, url) ==
  [s EXCEPT !.pageType = detectPageType(url),
            !.contextCoefficient = getContextCoefficient(detectPageType(url))]

CONTENT_READY(t, url) == Reinit("CONTENT_READY", t, withPageType(FreshState, url))

PAGE_INFO(t, url) ==
  /\ Message(t)
  /\ tabStates' = [tabStates EXCEPT ![t] = withPageType(getTabState(t), url)]
  /\ Record("PAGE_INFO", t, <<>>)
  /\ UNCHANGED <<monitor, manager, completionInFlight, tabOpen, updateIntervals, intervals, pending, storage, sugCount, nTicks>>

\* the score the rebate applies above, and the score it sets
REBATE_ABOVE == 50000
REBATE_SCORE == 45000

handleTherapyCompletion(s) ==
  IF s.dsi > REBATE_ABOVE
    THEN [s EXCEPT !.isTherapyActive = FALSE, !.dsi = REBATE_SCORE, !.currentLevel = 0]
    ELSE [s EXCEPT !.isTherapyActive = FALSE]

\* the listener handles the THERAPY_COMPLETED that deactivateVisualTherapy(true)
\* sent right after its THERAPY_ACTIVE {active: false}
THERAPY_COMPLETED(t) ==
  /\ tabOpen[t]
  /\ completionInFlight[t]
  /\ completionInFlight' = [completionInFlight EXCEPT ![t] = FALSE]
  /\ tabStates' = [tabStates EXCEPT ![t] = handleTherapyCompletion(getTabState(t))]
  /\ storage' = IF getTabState(t).dsi > REBATE_ABOVE
                  THEN storage \cup KeysOf(t, {"dsi", "level"})
                  ELSE storage
  /\ Record(IF getTabState(t).dsi > REBATE_ABOVE THEN "therapyRebate"
            ELSE "THERAPY_COMPLETED", t, <<>>)
  /\ UNCHANGED <<monitor, manager, tabOpen, updateIntervals, intervals, pending, sugCount, nTicks, nMsgs>>

\* THERAPY_ACTIVE sent by activateVisualTherapy (active) and by
\* deactivateVisualTherapy(false) (not active)
THERAPY_ACTIVE(t, active) ==
  /\ Message(t)
  /\ tabStates' = [tabStates EXCEPT ![t] = [getTabState(t) EXCEPT !.isTherapyActive = active]]
  /\ Record("THERAPY_ACTIVE", t, <<>>)
  /\ UNCHANGED <<monitor, manager, completionInFlight, tabOpen, updateIntervals, intervals, pending, storage, sugCount, nTicks>>

\* THERAPY_ACTIVE {active: false} sent by deactivateVisualTherapy(true), which
\* sends THERAPY_COMPLETED next
THERAPY_ACTIVE_completed(t) ==
  /\ Message(t)
  /\ ~completionInFlight[t]
  /\ completionInFlight' = [completionInFlight EXCEPT ![t] = TRUE]
  /\ tabStates' = [tabStates EXCEPT ![t] = [getTabState(t) EXCEPT !.isTherapyActive = FALSE]]
  /\ Record("THERAPY_ACTIVE", t, <<>>)
  /\ UNCHANGED <<monitor, manager, tabOpen, updateIntervals, intervals, pending, storage, sugCount, nTicks>>

targetDsiAfterExit == 40000

\* the level handleReaderModeExit recomputes
exitLevel(dsi) ==
  IF dsi > LEVEL_3_THRESHOLD THEN 3
  ELSE IF dsi > LEVEL_2_THRESHOLD THEN 2
  ELSE IF dsi > LEVEL_1_THRESHOLD THEN 1
  ELSE 0

handleReaderModeExit(s) ==
  LET dsi == Min(s.dsi, targetDsiAfterExit)
  IN  [s EXCEPT !.isReaderModeActive = FALSE, !.dsi = dsi, !.currentLevel = exitLevel(dsi)]

\* READER_MODE_STATE with payload.active false
READER_MODE_OFF(t) ==
  LET s == handleReaderModeExit(getTabState(t))
  IN  /\ Message(t)
      /\ nPending(t) < MaxPending
      /\ tabStates' = [tabStates EXCEPT ![t] = s]
      /\ pending' = [pending EXCEPT ![t] =
                       Suspend(t, Invocation("handleReaderModeExit", "awaitIntervention"))]
      /\ Record("READER_MODE_OFF", t, <<Intervention(t, s.currentLevel)>>)
      /\ UNCHANGED <<monitor, manager, completionInFlight, tabOpen, updateIntervals, intervals, storage, sugCount, nTicks>>

\* the score reader mode is raised to when it starts below LEVEL_2_THRESHOLD
readerEntryScore == LEVEL_2_THRESHOLD + 5000

\* READER_MODE_STATE with any other payload.active
READER_MODE_ON(t) ==
  LET s == getTabState(t)
      low == s.dsi < LEVEL_2_THRESHOLD
  IN  /\ Message(t)
      /\ tabStates' = [tabStates EXCEPT ![t] =
           [s EXCEPT !.isReaderModeActive = TRUE,
                     !.dsi = IF low THEN readerEntryScore ELSE @]]
      /\ Record("READER_MODE_ON", t, IF low THEN <<Intervention(t, 2)>> ELSE <<>>)
      /\ UNCHANGED <<monitor, manager, completionInFlight, tabOpen, updateIntervals, intervals, pending, storage, sugCount, nTicks>>

\* the state object DEBUG_SET_DSI hands to updateDSI
debugState(t, v) == [getTabState(t) EXCEPT !.dsi = v * 1000]

\* faulty variant: the score is overwritten and updateDSI is not called
DEBUG_SET_DSI_NoTick(t, v) ==
  /\ Message(t)
  /\ nTicks < MaxTicks
  /\ nTicks' = nTicks + 1
  /\ tabStates' = [tabStates EXCEPT ![t] = debugState(t, v)]
  /\ Record("DEBUG_SET_DSI", t, <<>>)
  /\ UNCHANGED <<monitor, manager, completionInFlight, tabOpen, updateIntervals, intervals,
                 pending, storage, sugCount>>

\* DEBUG_SET_DSI: the score is overwritten and updateDSI(tabId) is called
DEBUG_SET_DSI(t, v) ==
  /\ Message(t)
  /\ nTicks < MaxTicks
  /\ RunUpdateDSI("DEBUG_SET_DSI", t, debugState(t, v))
  /\ UNCHANGED <<monitor, manager, completionInFlight, tabOpen, updateIntervals, intervals>>

(***************************************************************************)
(* Specification                                                           *)
(***************************************************************************)
Next ==
  \/ \E t \in Tabs : startDSITimer(t)
  \/ \E t \in Tabs : onRemoved(t)
  \/ \E d \in TimeSteps : TimePasses(d)
  \/ \E t \in Tabs : TimerFires(t)
  \/ \E t \in Tabs : \E inv \in BagToSet(pending[t]) : Resume(t, inv)
  \/ \E t \in Tabs : \E data \in Reports : BEHAVIOR_DATA(t, data)
  \/ \E t \in Tabs : GET_DSI(t)
  \/ \E t \in Tabs : RESET_DSI(t)
  \/ \E t \in Tabs : \E url \in Urls : CONTENT_READY(t, url)
  \/ \E t \in Tabs : \E url \in Urls : PAGE_INFO(t, url)
  \/ \E t \in Tabs : THERAPY_COMPLETED(t)
  \/ \E t \in Tabs : \E active \in BOOLEAN : THERAPY_ACTIVE(t, active)
  \/ \E t \in Tabs : THERAPY_ACTIVE_completed(t)
  \/ \E t \in Tabs : READER_MODE_OFF(t)
  \/ \E t \in Tabs : READER_MODE_ON(t)
  \/ \E t \in Tabs : \E v \in DebugValues : DEBUG_SET_DSI(t, v)

Spec == Init /\ [][Next]_vars

(***************************************************************************)
(* BehaviorMonitor: the events of the page and the report timer            *)
(***************************************************************************)
\* click, scroll and report events in one behaviour
MaxClicks == 6
MaxScrolls == 2
MaxReports == 2

\* the milliseconds between one event and the next
MonitorSteps == {400, 600}

\* event.clientX, event.clientY
ClickPoints == { <<10, 10>>, <<300, 100>> }

\* window.scrollY
ScrollYs == {0, 300}

backgroundVars == <<tabOpen, tabStates, updateIntervals, intervals, pending,
                    storage, emitted, lastAnnounced, sugCount, last, nTicks,
                    nMsgs, completionInFlight>>

Abs(x) == IF x < 0 THEN -x ELSE x

Aged(x, d) == IF x = Undefined THEN Undefined ELSE Min(MaxAge, x + d)

\* Date.now() is d milliseconds later
later(m, d) == [m EXCEPT !.sinceScroll = Aged(@, d), !.sinceClick = Aged(@, d)]

\* the square of dist in handleClick
distSquared(p, q) == (p[1] - q[1]) * (p[1] - q[1]) + (p[2] - q[2]) * (p[2] - q[2])

\* faulty variant: the comparison with the missing lastClickTime succeeds
isRageClick_FirstCounts(m, p) ==
  /\ distSquared(p, m.lastClickPosition) < 20 * 20
  /\ (m.sinceClick = Undefined \/ m.sinceClick < 500)

\* dist < 20 && (now - this.lastClickTime < 500)
isRageClick(m, p) ==
  /\ distSquared(p, m.lastClickPosition) < 20 * 20
  /\ m.sinceClick # Undefined
  /\ m.sinceClick < 500

\* the clicks so far, if they are all at one point, each less than 500 ms
\* after the one before and with no report answered since the constructor;
\* -1 otherwise
rapidRunAfter(m, p) ==
  IF m.nClicks = 0 THEN 1
  ELSE IF m.rapidRun > 0 /\ p = m.lastClickPosition /\ m.sinceClick < 500
    THEN m.rapidRun + 1
  ELSE -1

handleClick(m, p) ==
  LET older == [i \in 1..Len(m.clickEvents) |-> m.clickEvents[i] + m.sinceClick]
      kept == SelectSeq(older, LAMBDA a : a < CLICK_WINDOW_SIZE)
  IN  [m EXCEPT !.rageClickCount = IF isRageClick(m, p) THEN @ + 1 ELSE @,
                !.lastClickPosition = p,
                !.sinceClick = 0,
                !.clickEvents = Append(kept, 0),
                !.rapidRun = rapidRunAfter(m, p),
                !.quietReports = 0,
                !.nClicks = @ + 1]

handleScroll(m, y) ==
  LET currentDirection == IF y > m.lastScrollPosition THEN 1 ELSE -1
      moved == Abs(y - m.lastScrollPosition) > 10
      reversed == /\ moved
                  /\ m.scrollDirection # 0
                  /\ currentDirection # m.scrollDirection
                  /\ m.sinceScroll < 1000
      older == [i \in 1..Len(m.scrollEvents) |->
                  [m.scrollEvents[i] EXCEPT !.back = @ + m.sinceScroll]]
      kept == SelectSeq(older, LAMBDA e : e.back < SCROLL_WINDOW_SIZE)
  IN  [m EXCEPT !.directionChanges = IF reversed THEN @ + 1 ELSE @,
                !.scrollDirection = IF moved THEN currentDirection ELSE @,
                !.lastScrollPosition = y,
                !.sinceScroll = 0,
                !.scrollEvents = Append(kept, [back |-> 0, position |-> y]),
                !.quietReports = 0,
                !.nScrolls = @ + 1]

\* faulty variant: the distance is divided by the length of the window
calculateScrollSpeed_PerWindow(m) ==
  LET events == m.scrollEvents
      dist[i \in 1..Len(events)] ==
        IF i = 1 THEN 0
        ELSE dist[i - 1] + Abs(events[i].position - events[i - 1].position)
  IN  IF Len(events) < 2 THEN 0
      ELSE (dist[Len(events)] * 1000) \div SCROLL_WINDOW_SIZE

\* px/s, truncated
calculateScrollSpeed(m) ==
  LET events == m.scrollEvents
      timeDelta == events[1].back - events[Len(events)].back
      dist[i \in 1..Len(events)] ==
        IF i = 1 THEN 0
        ELSE dist[i - 1] + Abs(events[i].position - events[i - 1].position)
  IN  IF Len(events) < 2 THEN 0
      ELSE IF timeDelta <= 0 THEN 0
      ELSE (dist[Len(events)] * 1000) \div timeDelta

\* clicks per second
calculateClickFrequency(m) ==
  Len(m.clickEvents) \div (CLICK_WINDOW_SIZE \div 1000)

\* reportBehavior: the payload it computes, sent if a rate is positive
reportBehavior(m) ==
  LET scrollSpeed == calculateScrollSpeed(m)
      clickFrequency == calculateClickFrequency(m)
      send == scrollSpeed > 0 \/ clickFrequency > 0
  IN  [m EXCEPT !.sample = [sent |-> send,
                            directionChanges |-> m.directionChanges],
                !.responses = IF send THEN @ + 1 ELSE @,
                !.quietReports = 1,
                !.nReports = @ + 1]

\* the callback of chrome.runtime.sendMessage in reportBehavior
reportResponse(m) ==
  [m EXCEPT !.directionChanges = Max(0, @ - 1),
            !.rageClickCount = 0,
            !.rapidRun = -1,
            !.responses = @ - 1]

ClickEvent(d, p) ==
  /\ monitor.nClicks < MaxClicks
  /\ monitor' = handleClick(later(monitor, d), p)
  /\ UNCHANGED <<backgroundVars, manager>>

ScrollEvent(d, y) ==
  /\ monitor.nScrolls < MaxScrolls
  /\ monitor' = handleScroll(later(monitor, d), y)
  /\ UNCHANGED <<backgroundVars, manager>>

ReportTimer(d) ==
  /\ monitor.nReports < MaxReports
  /\ monitor' = reportBehavior(later(monitor, d))
  /\ UNCHANGED <<backgroundVars, manager>>

ReportResponse ==
  /\ monitor.responses > 0
  /\ monitor' = reportResponse(monitor)
  /\ UNCHANGED <<backgroundVars, manager>>

NextMonitor ==
  \/ \E d \in MonitorSteps : \E p \in ClickPoints : ClickEvent(d, p)
  \/ \E d \in MonitorSteps : \E y \in ScrollYs : ScrollEvent(d, y)
  \/ \E d \in MonitorSteps : ReportTimer(d)
  \/ ReportResponse

SpecMonitor == Init /\ [][NextMonitor]_vars

(***************************************************************************)
(* calculateEntropyScore over the feature combinations                     *)
(***************************************************************************)
\* the largest directionChanges and rageClickCount tried
MaxCount == 4

ScrollSpeeds == {0, SCROLL_SPEED_THRESHOLD, SCROLL_SPEED_THRESHOLD + 1,
                 SCROLL_SPEED_CHAOTIC, SCROLL_SPEED_CHAOTIC + 1}

ClickFrequencies == {0, CLICK_FREQUENCY_CHAOTIC, CLICK_FREQUENCY_CHAOTIC + 1}

FeatureStates ==
  { [FreshState EXCEPT !.directionChanges = dc, !.rageClickCount = rc,
                       !.scrollSpeed = ss, !.clickFrequency = cf] :
      dc \in 0..MaxCount, rc \in 0..MaxCount,
      ss \in ScrollSpeeds, cf \in ClickFrequencies }

InitEntropy ==
  /\ tabStates \in [Tabs -> FeatureStates]
  /\ InitRest

\* state.entropyScore = calculateEntropyScore(state)
ScoreEntropy(t) ==
  /\ last.op = "other"
  /\ tabStates' = [tabStates EXCEPT ![t].entropyScore = calculateEntropyScore(tabStates[t])]
  /\ last' = [op |-> "calculateEntropyScore", tab |-> t, level0 |-> -1]
  /\ UNCHANGED <<monitor, manager, completionInFlight, tabOpen, updateIntervals, intervals,
                 pending, storage, emitted, lastAnnounced, sugCount, nTicks, nMsgs>>

NextEntropy == \E t \in Tabs : ScoreEntropy(t)

SpecEntropy == InitEntropy /\ [][NextEntropy]_vars

(***************************************************************************)
(* A session left alone: the 1 Hz timer is the only thing that happens     *)
(***************************************************************************)
UPDATE_INTERVAL == 1000

\* ticks of an idle session in one behaviour
MaxIdleTicks == 20

\* the score the idle run starts from
IdleStartScores == {0, 3000, 5000}

\* startDSITimer has run, then CONTENT_READY set the page type
InitIdle ==
  /\ tabStates \in [Tabs -> { [FreshState EXCEPT
                                  !.pageType = pt,
                                  !.contextCoefficient = getContextCoefficient(pt),
                                  !.dsi = d] :
                                pt \in PageTypes, d \in IdleStartScores }]
  /\ tabOpen = [t \in Tabs |-> TRUE]
  /\ updateIntervals = [t \in Tabs |-> t]
  /\ intervals = {<<t, t>> : t \in Tabs}
  /\ pending = [t \in Tabs |-> EmptyBag]
  /\ storage = {}
  /\ emitted = <<>>
  /\ lastAnnounced = [t \in Tabs |-> 0]
  /\ sugCount = [t \in Tabs |-> 0]
  /\ last = [op |-> "other", tab |-> 0, level0 |-> -1]
  /\ nTicks = 0
  /\ nMsgs = 0
  /\ completionInFlight = [t \in Tabs |-> FALSE]
  /\ monitor = FreshMonitor
  /\ manager = FreshManager

\* the state object when the interval fires, UPDATE_INTERVAL after the last
\* tick, with nothing reported in between
afterInterval(s) == [s EXCEPT !.sinceActivity = Min(MaxSince, @ + UPDATE_INTERVAL)]

IdleTick(t) ==
  /\ \E x \in intervals : x[2] = t
  /\ hasState(t)
  /\ nTicks < MaxIdleTicks
  /\ RunUpdateDSI("tick", t, afterInterval(tabStates[t]))
  /\ UNCHANGED <<monitor, manager, completionInFlight, tabOpen, updateIntervals, intervals, nMsgs>>

NextIdle ==
  \/ \E t \in Tabs : IdleTick(t)
  \/ \E t \in Tabs : \E inv \in BagToSet(pending[t]) : Resume(t, inv)

SpecIdle == InitIdle /\ [][NextIdle]_vars

(***************************************************************************)
(* A session that scrolls fast: one report before every tick               *)
(***************************************************************************)
\* ticks of the scrolling session in one behaviour
MaxScrollTicks == 20

\* the payload of reportBehavior for a steady scroll of 4000 px/s
FastScroll == [scrollSpeed |-> 4000, clickFrequency |-> 0,
               directionChanges |-> 0, rageClickCount |-> 0]

\* startDSITimer has run, then CONTENT_READY set the page type of a social site
InitScroll ==
  /\ tabStates = [t \in Tabs |-> withPageType(FreshState, {"SOCIAL_DOMAINS"})]
  /\ tabOpen = [t \in Tabs |-> TRUE]
  /\ updateIntervals = [t \in Tabs |-> t]
  /\ intervals = {<<t, t>> : t \in Tabs}
  /\ pending = [t \in Tabs |-> EmptyBag]
  /\ storage = {}
  /\ emitted = <<>>
  /\ lastAnnounced = [t \in Tabs |-> 0]
  /\ sugCount = [t \in Tabs |-> 0]
  /\ last = [op |-> "other", tab |-> 0, level0 |-> -1]
  /\ nTicks = 0
  /\ nMsgs = 0
  /\ completionInFlight = [t \in Tabs |-> FALSE]
  /\ monitor = FreshMonitor
  /\ manager = FreshManager

\* BEHAVIOR_DATA of the scroll, once after every tick
ScrollReport(t) ==
  /\ tabOpen[t]
  /\ nMsgs = nTicks
  /\ nMsgs < MaxScrollTicks
  /\ nMsgs' = nMsgs + 1
  /\ tabStates' = [tabStates EXCEPT ![t] = handleBehaviorData(getTabState(t), FastScroll)]
  /\ Record("BEHAVIOR_DATA", t, <<>>)
  /\ UNCHANGED <<monitor, manager, completionInFlight, tabOpen, updateIntervals, intervals,
                 pending, storage, sugCount, nTicks>>

\* the setInterval callback, once after every report
ScrollTick(t) ==
  /\ \E x \in intervals : x[2] = t
  /\ nMsgs = nTicks + 1
  /\ RunUpdateDSI("tick", t, getTabState(t))
  /\ UNCHANGED <<monitor, manager, completionInFlight, tabOpen, updateIntervals, intervals, nMsgs>>

NextScroll ==
  \/ \E t \in Tabs : ScrollReport(t)
  \/ \E t \in Tabs : ScrollTick(t)
  \/ \E t \in Tabs : \E inv \in BagToSet(pending[t]) : Resume(t, inv)

SpecScroll == InitScroll /\ [][NextScroll]_vars

(***************************************************************************)
(* A session at any score, level and mode, left to its timer.  The locks   *)
(* are set by messages at any time and DEBUG_SET_DSI writes any integer    *)
(* score into the state before its tick, so a tick can start from every    *)
(* combination below.                                                      *)
(***************************************************************************)
\* state.dsi when the ticks start
TickScores == {0, 10000, 22000, 25000, 26000, 30000, 44000, 50000, 56000,
               64000, 70000, 100000}

TickPageTypes == {"other", "document", "social"}

\* the features and the time since the last BEHAVIOR_DATA when the ticks
\* start: nothing reported for 0 s and for 3 s, an orderly scroll just
\* reported, a yo-yo scroll with rage clicks just reported
TickFeatures ==
  { [scrollSpeed |-> 0, clickFrequency |-> 0, directionChanges |-> 0,
     rageClickCount |-> 0, sinceActivity |-> 0],
    [scrollSpeed |-> 0, clickFrequency |-> 0, directionChanges |-> 0,
     rageClickCount |-> 0, sinceActivity |-> 3000],
    [scrollSpeed |-> 500, clickFrequency |-> 0, directionChanges |-> 0,
     rageClickCount |-> 0, sinceActivity |-> 0],
    [scrollSpeed |-> 1000, clickFrequency |-> 6, directionChanges |-> 3,
     rageClickCount |-> 3, sinceActivity |-> 0] }

TickStartStates ==
  { [FreshState EXCEPT !.dsi = d,
                       !.currentLevel = l,
                       !.isTherapyActive = th,
                       !.isReaderModeActive = rd,
                       !.pageType = pt,
                       !.contextCoefficient = getContextCoefficient(pt),
                       !.scrollSpeed = f.scrollSpeed,
                       !.clickFrequency = f.clickFrequency,
                       !.directionChanges = f.directionChanges,
                       !.rageClickCount = f.rageClickCount,
                       !.sinceActivity = f.sinceActivity] :
      d \in TickScores, l \in 0..3, th \in BOOLEAN, rd \in BOOLEAN,
      pt \in TickPageTypes, f \in TickFeatures }

InitTicks ==
  /\ tabStates \in [Tabs -> TickStartStates]
  /\ tabOpen = [t \in Tabs |-> TRUE]
  /\ updateIntervals = [t \in Tabs |-> t]
  /\ intervals = {<<t, t>> : t \in Tabs}
  /\ pending = [t \in Tabs |-> EmptyBag]
  /\ storage = {}
  /\ emitted = <<>>
  /\ lastAnnounced = [t \in Tabs |-> 0]
  /\ sugCount = [t \in Tabs |-> 0]
  /\ last = [op |-> "other", tab |-> 0, level0 |-> -1]
  /\ nTicks = 0
  /\ nMsgs = 0
  /\ completionInFlight = [t \in Tabs |-> FALSE]
  /\ monitor = FreshMonitor
  /\ manager = FreshManager

\* an invocation suspended in chrome.tabs.sendMessage
awaitsDelivery(inv) ==
  inv.pc \in {"awaitIntervention", "awaitSuggestion", "awaitTherapyIntervention"}

\* what a failed delivery is recorded as
failureOf(inv) ==
  IF inv.pc = "awaitSuggestion" THEN "SUGGESTION failed" ELSE "INTERVENTION failed"

\* faulty variant: the rejection is not caught and ends the invocation
DeliveryFails_Propagates(t, inv) ==
  /\ BagIn(inv, pending[t])
  /\ awaitsDelivery(inv)
  /\ pending' = [pending EXCEPT ![t] = pending[t] (-) SetToBag({inv})]
  /\ last' = [op |-> failureOf(inv), tab |-> t, level0 |-> -1]
  /\ emitted' = <<>>
  /\ UNCHANGED <<tabStates, storage, lastAnnounced, monitor, manager, completionInFlight,
                 tabOpen, updateIntervals, intervals, sugCount, nTicks, nMsgs>>

\* chrome.tabs.sendMessage rejects (no receiver in the tab): the catch block
\* of triggerIntervention or sendSuggestion swallows the error and the caller
\* goes on after its await
DeliveryFails(t, inv) ==
  LET rest == pending[t] (-) SetToBag({inv})
      goesOn == inv.pc \in {"awaitIntervention", "awaitSuggestion"}
      s == IF inv.pc = "awaitSuggestion"
             THEN [tabStates[t] EXCEPT !.suggestionShown = TRUE]
             ELSE tabStates[t]
      writes == IF ~goesOn THEN {}
                ELSE IF inv.handler = "updateDSI" THEN SnapshotKeys
                ELSE {"dsi", "level"}
  IN  /\ BagIn(inv, pending[t])
      /\ awaitsDelivery(inv)
      /\ pending' = [pending EXCEPT ![t] =
           IF goesOn THEN rest (+) SetToBag({[inv EXCEPT !.pc = "awaitStorage"]})
           ELSE rest]
      /\ tabStates' = IF goesOn /\ inv.handler = "updateDSI" /\ ~inv.detached
                        THEN [tabStates EXCEPT ![t] = resetAfterTick(s)]
                        ELSE tabStates
      /\ storage' = storage \cup KeysOf(t, writes)
      /\ last' = [op |-> failureOf(inv), tab |-> t, level0 |-> -1]
      /\ emitted' = <<>>
      /\ UNCHANGED <<lastAnnounced, monitor, manager, completionInFlight, tabOpen,
                     updateIntervals, intervals, sugCount, nTicks, nMsgs>>

NextTicks ==
  \/ \E t \in Tabs : IdleTick(t)
  \/ \E t \in Tabs : \E inv \in BagToSet(pending[t]) : Resume(t, inv)
  \/ \E t \in Tabs : \E inv \in BagToSet(pending[t]) : DeliveryFails(t, inv)

SpecTicks == InitTicks /\ [][NextTicks]_vars

(***************************************************************************)
(* The inputs of the score engine: BEHAVIOR_DATA, also with values a       *)
(* well-behaved BehaviorMonitor never sends, and DEBUG_SET_DSI             *)
(***************************************************************************)
\* payloads with a negative rate or counter
InvalidReports ==
  { [scrollSpeed |-> -5, clickFrequency |-> 0, directionChanges |-> -1, rageClickCount |-> 0],
    [scrollSpeed |-> 500, clickFrequency |-> -1, directionChanges |-> 0, rageClickCount |-> -2] }

NextInputs ==
  \/ \E t \in Tabs : startDSITimer(t)
  \/ \E d \in TimeSteps : TimePasses(d)
  \/ \E t \in Tabs : TimerFires(t)
  \/ \E t \in Tabs : \E inv \in BagToSet(pending[t]) : Resume(t, inv)
  \/ \E t \in Tabs : \E data \in Reports \cup InvalidReports : BEHAVIOR_DATA(t, data)
  \/ \E t \in Tabs : \E v \in DebugValues : DEBUG_SET_DSI(t, v)

SpecInputs == Init /\ [][NextInputs]_vars

(***************************************************************************)
(* A Standard session that has gone quiet: the grace window is over and    *)
(* the timer is the only thing that happens.  Levels 0 and 1 come with the *)
(* scores the standard thresholds leave them with; levels 2 and 3 with any *)
(* score, as left behind by a lock that was just cleared.                  *)
(***************************************************************************)
DecayScores == {10000, 26000, 30000, 50000, 90000}

levelFits(l, d) ==
  /\ (l = 0 => d <= LEVEL_1_THRESHOLD)
  /\ (l = 1 => d > level1ExitThreshold /\ d <= LEVEL_2_SUGGEST)

DecayStartStates ==
  { [FreshState EXCEPT !.dsi = x[2],
                       !.currentLevel = x[1],
                       !.pageType = pt,
                       !.contextCoefficient = getContextCoefficient(pt),
                       !.sinceActivity = DECAY_DELAY] :
      x \in {y \in (0..3) \X DecayScores : levelFits(y[1], y[2])}, pt \in PageTypes }

InitDecay ==
  /\ tabStates \in [Tabs -> DecayStartStates]
  /\ tabOpen = [t \in Tabs |-> TRUE]
  /\ updateIntervals = [t \in Tabs |-> t]
  /\ intervals = {<<t, t>> : t \in Tabs}
  /\ pending = [t \in Tabs |-> EmptyBag]
  /\ storage = {}
  /\ emitted = <<>>
  /\ lastAnnounced = [t \in Tabs |-> 0]
  /\ sugCount = [t \in Tabs |-> 0]
  /\ last = [op |-> "other", tab |-> 0, level0 |-> -1]
  /\ nTicks = 0
  /\ nMsgs = 0
  /\ completionInFlight = [t \in Tabs |-> FALSE]
  /\ monitor = FreshMonitor
  /\ manager = FreshManager

SpecDecay == InitDecay /\ [][NextIdle]_vars

(***************************************************************************)
(* A level-1 session in the band of the gentle suggestion, left to its     *)
(* timer while the page starts and stops the visual therapy                *)
(***************************************************************************)
TherapyStartScores == {66000, 70000}

InitTherapy ==
  /\ tabStates \in [Tabs -> { [FreshState EXCEPT
                                  !.dsi = d,
                                  !.currentLevel = 1,
                                  !.pageType = pt,
                                  !.contextCoefficient = getContextCoefficient(pt)] :
                                d \in TherapyStartScores, pt \in TickPageTypes }]
  /\ tabOpen = [t \in Tabs |-> TRUE]
  /\ updateIntervals = [t \in Tabs |-> t]
  /\ intervals = {<<t, t>> : t \in Tabs}
  /\ pending = [t \in Tabs |-> EmptyBag]
  /\ storage = {}
  /\ emitted = <<>>
  /\ lastAnnounced = [t \in Tabs |-> 1]
  /\ sugCount = [t \in Tabs |-> 0]
  /\ last = [op |-> "other", tab |-> 0, level0 |-> -1]
  /\ nTicks = 0
  /\ nMsgs = 0
  /\ completionInFlight = [t \in Tabs |-> FALSE]
  /\ monitor = FreshMonitor
  /\ manager = FreshManager

NextTherapy ==
  \/ \E t \in Tabs : IdleTick(t)
  \/ \E t \in Tabs : \E inv \in BagToSet(pending[t]) : Resume(t, inv)
  \/ \E t \in Tabs : \E active \in BOOLEAN : THERAPY_ACTIVE(t, active)

SpecTherapy == InitTherapy /\ [][NextTherapy]_vars

(***************************************************************************)
(* A Standard session that has just received a behaviour report: every     *)
(* combination of the four features around their thresholds, on every      *)
(* page category                                                           *)
(***************************************************************************)
ActiveScrollSpeeds == {0, 51, SCROLL_SPEED_THRESHOLD + 1, SCROLL_SPEED_CHAOTIC,
                       SCROLL_SPEED_CHAOTIC + 1}

ActiveClickFrequencies == {0, CLICK_FREQUENCY_THRESHOLD, CLICK_FREQUENCY_THRESHOLD + 1}

ActiveCounts == {0, DIRECTION_CHANGE_CHAOTIC, DIRECTION_CHANGE_CHAOTIC + 1}

\* the score and the level the report finds
ActiveStarts == {<<0, 30000>>, <<1, 50000>>}

ActiveStartStates ==
  { [FreshState EXCEPT !.currentLevel = x[1],
                       !.dsi = x[2],
                       !.pageType = pt,
                       !.contextCoefficient = getContextCoefficient(pt),
                       !.directionChanges = dc,
                       !.rageClickCount = rc,
                       !.scrollSpeed = ss,
                       !.clickFrequency = cf] :
      x \in ActiveStarts, pt \in PageTypes, dc \in ActiveCounts, rc \in ActiveCounts,
      ss \in ActiveScrollSpeeds, cf \in ActiveClickFrequencies }

InitActive ==
  /\ tabStates \in [Tabs -> ActiveStartStates]
  /\ tabOpen = [t \in Tabs |-> TRUE]
  /\ updateIntervals = [t \in Tabs |-> t]
  /\ intervals = {<<t, t>> : t \in Tabs}
  /\ pending = [t \in Tabs |-> EmptyBag]
  /\ storage = {}
  /\ emitted = <<>>
  /\ lastAnnounced = [t \in Tabs |-> tabStates[t].currentLevel]
  /\ sugCount = [t \in Tabs |-> 0]
  /\ last = [op |-> "other", tab |-> 0, level0 |-> -1]
  /\ nTicks = 0
  /\ nMsgs = 0
  /\ completionInFlight = [t \in Tabs |-> FALSE]
  /\ monitor = FreshMonitor
  /\ manager = FreshManager

SpecActive == InitActive /\ [][NextIdle]_vars

(***************************************************************************)
(* A Standard session at level 1 that nothing but its timer touches, for   *)
(* as long as one likes: setInterval keeps firing and every await of a     *)
(* tick comes back.  The scores are those a level-1 session can have when  *)
(* an evaluation starts (DEBUG_SET_DSI writes any score before its own).   *)
(***************************************************************************)
QuietScores == {10000, 22000, 26000, 30000, 50000, 90000}

QuietStartStates ==
  { [FreshState EXCEPT !.dsi = d,
                       !.currentLevel = 1,
                       !.pageType = pt,
                       !.contextCoefficient = getContextCoefficient(pt)] :
      d \in QuietScores, pt \in TickPageTypes }

InitQuiet ==
  /\ tabStates \in [Tabs -> QuietStartStates]
  /\ tabOpen = [t \in Tabs |-> TRUE]
  /\ updateIntervals = [t \in Tabs |-> t]
  /\ intervals = {<<t, t>> : t \in Tabs}
  /\ pending = [t \in Tabs |-> EmptyBag]
  /\ storage = {}
  /\ emitted = <<>>
  /\ lastAnnounced = [t \in Tabs |-> 1]
  /\ sugCount = [t \in Tabs |-> 0]
  /\ last = [op |-> "other", tab |-> 0, level0 |-> -1]
  /\ nTicks = 0
  /\ nMsgs = 0
  /\ completionInFlight = [t \in Tabs |-> FALSE]
  /\ monitor = FreshMonitor
  /\ manager = FreshManager

\* the setInterval callback, UPDATE_INTERVAL after the one before, not counted
QuietTick(t) ==
  /\ \E x \in intervals : x[2] = t
  /\ hasState(t)
  /\ nPending(t) < MaxPending
  /\ \E r \in {updateDSI(t, afterInterval(tabStates[t]))} :
       /\ tabStates' = [tabStates EXCEPT ![t] = r.state]
       /\ pending' = IF r.pc = "done" THEN pending
                     ELSE [pending EXCEPT ![t] = Suspend(t, Invocation("updateDSI", r.pc))]
       /\ storage' = IF r.stored THEN storage \cup KeysOf(t, SnapshotKeys) ELSE storage
       /\ sugCount' = CountSuggestions(t, r)
       /\ Record("tick", t, r.sent)
  /\ UNCHANGED <<monitor, manager, completionInFlight, tabOpen, updateIntervals, intervals,
                 nTicks, nMsgs>>

NextQuiet ==
  \/ \E t \in Tabs : QuietTick(t)
  \/ \E t \in Tabs : \E inv \in BagToSet(pending[t]) : Resume(t, inv)

SpecQuiet ==
  /\ InitQuiet
  /\ [][NextQuiet]_vars
  /\ WF_vars(\E t \in Tabs : QuietTick(t))
  /\ WF_vars(\E t \in Tabs : \E inv \in BagToSet(pending[t]) : Resume(t, inv))

(***************************************************************************)
(* The exchange between the background and the page's InterventionManager  *)
(* that one INTERVENTION message starts.  The session is left alone        *)
(* otherwise: no tick, no report and no answer of the user to a dialog.    *)
(***************************************************************************)
\* messages from the page that the background has not handled yet, at most
MaxInFlight == 4

\* executeIntervention: the manager after the user accepted an intervention
executeIntervention(m, level) ==
  [m EXCEPT !.currentLevel = level,
            !.softModeActive = level >= 1,
            !.readerModeActive = level = 2,
            !.therapyActive = level = 3]

\* the exchange starts with one INTERVENTION message on its way, carrying the
\* session's level; the manager is a new one, which also is one whose user
\* answered no dialog, or one whose user accepted level 1, 2 or 3
InitExchange ==
  /\ \E x \in {y \in (0..3) \X {10000, 30000, 38000, 50000, 70000, 90000} :
                  levelFits(y[1], y[2])} :
       \E l \in 0..3 :
         LET m == executeIntervention(FreshManager, l)
         IN  /\ tabStates = [t \in Tabs |->
                    [FreshState EXCEPT !.dsi = x[2],
                                       !.currentLevel = x[1],
                                       !.isReaderModeActive = m.readerModeActive,
                                       !.isTherapyActive = m.therapyActive]]
             /\ manager = [m EXCEPT !.toContent = <<x[1]>>]
  /\ tabOpen = [t \in Tabs |-> TRUE]
  /\ updateIntervals = [t \in Tabs |-> t]
  /\ intervals = {<<t, t>> : t \in Tabs}
  /\ pending = [t \in Tabs |-> EmptyBag]
  /\ storage = {}
  /\ emitted = <<>>
  /\ lastAnnounced = [t \in Tabs |-> tabStates[t].currentLevel]
  /\ sugCount = [t \in Tabs |-> 0]
  /\ last = [op |-> "other", tab |-> 0, level0 |-> -1]
  /\ nTicks = 0
  /\ nMsgs = 0
  /\ completionInFlight = [t \in Tabs |-> FALSE]
  /\ monitor = FreshMonitor

\* deactivateReaderMode and deactivateVisualTherapy: each sends its message
\* whether or not the mode was on
deactivateReaderMode(m) ==
  [m EXCEPT !.readerModeActive = FALSE,
            !.toBackground = Append(@, "READER_MODE_STATE")]

deactivateVisualTherapy(m) ==
  [m EXCEPT !.therapyActive = FALSE,
            !.toBackground = Append(@, "THERAPY_ACTIVE")]

deactivateSoftMode(m) == [m EXCEPT !.softModeActive = FALSE]

clearHigherInterventions(m, targetLevel) ==
  LET m1 == IF targetLevel < 3 /\ m.therapyActive THEN deactivateVisualTherapy(m) ELSE m
      m2 == IF targetLevel < 2 /\ m1.readerModeActive THEN deactivateReaderMode(m1) ELSE m1
  IN  IF targetLevel < 1 /\ m2.softModeActive THEN deactivateSoftMode(m2) ELSE m2

deactivateAll(m) ==
  deactivateVisualTherapy(deactivateReaderMode(deactivateSoftMode(m)))

\* askUserForIntervention: the dialog is shown unless one is shown already
askUserForIntervention(m) == [m EXCEPT !.asking = TRUE]

handleIntervention(m, level) ==
  IF level < m.currentLevel
    THEN [clearHigherInterventions(m, level) EXCEPT !.currentLevel = level]
  ELSE IF level = 0
    THEN [deactivateAll(m) EXCEPT !.currentLevel = 0]
  ELSE IF level > m.currentLevel
    THEN askUserForIntervention(m)
  ELSE m

\* the page's listener takes the next INTERVENTION message
InterventionArrives ==
  /\ manager.toContent # <<>>
  /\ Len(manager.toBackground) + 2 <= MaxInFlight
  /\ manager' = handleIntervention([manager EXCEPT !.toContent = Tail(@)],
                                   Head(manager.toContent))
  /\ Record("INTERVENTION", 0, <<>>)
  /\ UNCHANGED <<backgroundVars, monitor>>

\* the background's listener takes READER_MODE_STATE with payload.active
\* false: handleReaderModeExit, its INTERVENTION message and its save
ReaderExitArrives(t) ==
  LET s == handleReaderModeExit(getTabState(t))
  IN  /\ manager.toBackground # <<>>
      /\ Head(manager.toBackground) = "READER_MODE_STATE"
      /\ tabStates' = [tabStates EXCEPT ![t] = s]
      /\ manager' = [manager EXCEPT !.toBackground = Tail(@),
                                    !.toContent = Append(@, s.currentLevel)]
      /\ storage' = storage \cup KeysOf(t, {"dsi", "level"})
      /\ Record("READER_MODE_OFF", t, <<Intervention(t, s.currentLevel)>>)
      /\ UNCHANGED <<monitor, completionInFlight, tabOpen, updateIntervals, intervals,
                     pending, sugCount, nTicks, nMsgs>>

\* the background's listener takes THERAPY_ACTIVE with payload.active false
TherapyOffArrives(t) ==
  /\ manager.toBackground # <<>>
  /\ Head(manager.toBackground) = "THERAPY_ACTIVE"
  /\ tabStates' = [tabStates EXCEPT ![t] = [getTabState(t) EXCEPT !.isTherapyActive = FALSE]]
  /\ manager' = [manager EXCEPT !.toBackground = Tail(@)]
  /\ Record("THERAPY_ACTIVE", t, <<>>)
  /\ UNCHANGED <<monitor, completionInFlight, tabOpen, updateIntervals, intervals,
                 pending, storage, sugCount, nTicks, nMsgs>>

NextExchange ==
  \/ InterventionArrives
  \/ \E t \in Tabs : ReaderExitArrives(t)
  \/ \E t \in Tabs : TherapyOffArrives(t)

\* both listeners run when a message is waiting for them
SpecExchange ==
  /\ InitExchange
  /\ [][NextExchange]_vars
  /\ WF_vars(InterventionArrives)
  /\ WF_vars(\E t \in Tabs : ReaderExitArrives(t) \/ TherapyOffArrives(t))

(***************************************************************************)
(* Properties                                                              *)
(***************************************************************************)
\* the last step was an evaluation of updateDSI for tab t
Ticked(t) == last.op \in {"tick", "DEBUG_SET_DSI"} /\ last.tab = t /\ hasState(t)

\* ... with neither lock set
TickedStandard(t) ==
  /\ Ticked(t)
  /\ ~tabStates[t].isTherapyActive
  /\ ~tabStates[t].isReaderModeActive

\* C1: after every operation the score of every session is within
\* [MIN_DSI, MAX_DSI].
C1_ScoreBounded ==
  \A t \in Tabs : hasState(t) =>
    tabStates[t].dsi >= MIN_DSI /\ tabStates[t].dsi <= MAX_DSI

\* an evaluation whose chaotic increment was cut off at MAX_DSI
C1_Witness ==
  \E t \in Tabs : Ticked(t) /\ tabStates[t].dsi = MAX_DSI
                            /\ tabStates[t].entropyScore = 10
                            /\ ~tabStates[t].isTherapyActive
                            /\ ~tabStates[t].isReaderModeActive

\* C2: an evaluation of updateDSI that runs with isTherapyActive set leaves
\* the level at 3, whatever the score, the reader flag and the features.
C2_TherapyPinsLevel3 ==
  \A t \in Tabs : Ticked(t) /\ tabStates[t].isTherapyActive =>
    tabStates[t].currentLevel = 3

\* a therapy tick that raised the level to 3 at score 0
C2_Witness ==
  \E t \in Tabs : /\ Ticked(t)
                  /\ tabStates[t].isTherapyActive
                  /\ tabStates[t].dsi = 0
                  /\ last.level0 # 3
                  /\ tabStates[t].currentLevel = 3

\* C3: an evaluation of updateDSI with the reader lock set and the therapy
\* lock clear leaves the level at 3 if the score is above LEVEL_3_THRESHOLD
\* and at 2 otherwise.
C3_ReaderFloor ==
  \A t \in Tabs :
    Ticked(t) /\ tabStates[t].isReaderModeActive /\ ~tabStates[t].isTherapyActive =>
      tabStates[t].currentLevel =
        (IF tabStates[t].dsi > LEVEL_3_THRESHOLD THEN 3 ELSE 2)

\* a reader-mode tick that ends below the flow band, at level 2
C3_Witness ==
  \E t \in Tabs : /\ Ticked(t)
                  /\ tabStates[t].isReaderModeActive
                  /\ ~tabStates[t].isTherapyActive
                  /\ tabStates[t].dsi < FLOW_ZONE_MIN
                  /\ tabStates[t].currentLevel = 2

C5_OneEventPerChange ==
  \A t \in Tabs : Ticked(t) =>
    Interventions(emitted) =
      (IF tabStates[t].currentLevel # last.level0
         THEN <<Intervention(t, tabStates[t].currentLevel)>>
         ELSE <<>>)

\* a tick that changed the level and announced it
C5_Witness ==
  \E t \in Tabs : /\ Ticked(t)
                  /\ last.op = "tick"
                  /\ tabStates[t].currentLevel # last.level0
                  /\ Interventions(emitted) = <<Intervention(t, tabStates[t].currentLevel)>>

\* C6: no level-change event is dropped or duplicated, so after every
\* operation the level carried by the last INTERVENTION of a session (0
\* before the first) is the session's level.
C6_EventsTrackLevel ==
  \A t \in Tabs : hasState(t) => lastAnnounced[t] = tabStates[t].currentLevel

\* C7: between two evaluations that end with the score below
\* LEVEL_2_THRESHOLD at most one SUGGESTION is sent, and one is sent only by
\* an evaluation that leaves the level as it was.
C7_OneSuggestion ==
  \A t \in Tabs :
    /\ sugCount[t] <= 1
    /\ (\E i \in 1..Len(emitted) : emitted[i] = Suggestion(t)) =>
         Ticked(t) /\ tabStates[t].currentLevel = last.level0

\* the timers the host runs for tab t
TimersOf(t) == {x \in intervals : x[2] = t}

\* C8: a tab has at most one live timer, the one updateIntervals names;
\* startDSITimer for a tab that has a timer changes nothing, and stopDSITimer
\* for a tab that has none leaves the timers alone.
C8_TimerIdempotent ==
  /\ [](\A t \in Tabs :
          TimersOf(t) = IF hasTimer(t) THEN {<<updateIntervals[t], t>>} ELSE {})
  /\ [][\A t \in Tabs :
          /\ (last'.op = "startDSITimer" /\ last'.tab = t /\ hasTimer(t) =>
                UNCHANGED <<tabStates, updateIntervals, intervals, pending, storage>>)
          /\ (onRemoved(t) /\ ~hasTimer(t) =>
                UNCHANGED <<updateIntervals, intervals>>)]_vars

\* startDSITimer ran for a tab whose timer was running and whose score had
\* moved away from the initial 0
C8_Witness ==
  \E t \in Tabs : /\ last.op = "startDSITimer"
                  /\ last.tab = t
                  /\ hasState(t)
                  /\ tabStates[t].dsi > 0

\* C9: a tab has a state entry if and only if it has exactly one timer.
C9_StateIffTimer ==
  \A t \in Tabs : hasState(t) <=> (hasTimer(t) /\ Cardinality(TimersOf(t)) = 1)

\* C10: once a tab is removed and every handler that was suspended for it has
\* finished, it has no timer, no state entry and no snapshot key in storage.
C10_Teardown ==
  \A t \in Tabs : ~tabOpen[t] /\ pending[t] = EmptyBag =>
    /\ ~hasTimer(t)
    /\ TimersOf(t) = {}
    /\ ~hasState(t)
    /\ storage \cap KeysOf(t, SnapshotKeys) = {}

\* a step that starts an evaluation of updateDSI for tab t
StartsTick(t) == nTicks' # nTicks /\ last'.tab = t

\* C11: once tabs.onRemoved has run for a tab, the host has no timer left for
\* it and no evaluation of updateDSI starts for it any more.
C11_NoTickAfterTeardown ==
  /\ [](\A t \in Tabs : ~tabOpen[t] => TimersOf(t) = {})
  /\ [][\A t \in Tabs : ~tabOpen[t] => ~TimerFires(t) /\ ~StartsTick(t)]_vars

\* a tab removed while a tick of it was suspended, with evaluations to spare
C11_Witness ==
  \E t \in Tabs : /\ ~tabOpen[t]
                  /\ pending[t] # EmptyBag
                  /\ <<"entropy", t>> \in storage
                  /\ nTicks < MaxTicks

\* a message of one of the kinds that address an existing session
Signal(t) ==
  \/ \E data \in Reports : BEHAVIOR_DATA(t, data)
  \/ \E active \in BOOLEAN : THERAPY_ACTIVE(t, active)
  \/ THERAPY_ACTIVE_completed(t)
  \/ THERAPY_COMPLETED(t)
  \/ READER_MODE_ON(t)
  \/ READER_MODE_OFF(t)
  \/ \E url \in Urls : PAGE_INFO(t, url)
  \/ GET_DSI(t)
  \/ \E v \in DebugValues : DEBUG_SET_DSI(t, v)

\* C12: a signal for a tab that has no state entry creates none, leaves the
\* other tabs' entries alone and sends no message.
C12_SignalWithoutState ==
  [][\A t \in Tabs : ~hasState(t) /\ Signal(t) =>
       /\ tabStates'[t] = NoState
       /\ \A u \in Tabs \ {t} : tabStates'[u] = tabStates[u]
       /\ emitted' = <<>>]_vars

\* C13: the timer callback never starts updateDSI for a tab while an earlier
\* updateDSI of that tab is suspended at one of its awaits.
C13_OneTickInProgress ==
  [][\A t \in Tabs : TimerFires(t) =>
       \A inv \in BagToSet(pending[t]) : inv.handler # "updateDSI"]_vars

\* C14: no tick of a tab runs between the handling of the THERAPY_ACTIVE
\* {active: false} that clears the lock on completion and the handling of the
\* THERAPY_COMPLETED that applies the rebate.
C14_RebateAtomic ==
  [][\A t \in Tabs : completionInFlight[t] => ~TimerFires(t)]_vars

\* the session is in Standard mode with no activity reported
QuietStandard(t) ==
  /\ hasState(t)
  /\ ~tabStates[t].isTherapyActive
  /\ ~tabStates[t].isReaderModeActive
  /\ ~isMeaningfulActivity(tabStates[t])

\* C15: a therapy completion that arrives at a score above REBATE_ABOVE sets
\* the score to REBATE_SCORE, and the tick that follows it, in Standard mode
\* with no activity, ends with level 0.
C15_RebateThenLevel0 ==
  [][\A t \in Tabs :
       /\ (THERAPY_COMPLETED(t) /\ getTabState(t).dsi > REBATE_ABOVE =>
             tabStates'[t].dsi = REBATE_SCORE)
       /\ (/\ last.op = "therapyRebate"
           /\ last.tab = t
           /\ QuietStandard(t)
           /\ TimerFires(t)
           => tabStates'[t].currentLevel = 0)]_vars

\* C16: right after THERAPY_COMPLETED is handled the level is 0 or 1 and the
\* therapy lock is clear, whatever the score was.
C16_CompletionLowersLevel ==
  [][\A t \in Tabs : THERAPY_COMPLETED(t) =>
       /\ tabStates'[t].currentLevel \in {0, 1}
       /\ ~tabStates'[t].isTherapyActive]_vars

\* C17: the entropy computed for any combination of the four features is
\* within [0, 1] (0..10 tenths).
C17_EntropyCapped ==
  \A t \in Tabs : hasState(t) =>
    tabStates[t].entropyScore >= 0 /\ tabStates[t].entropyScore <= 10

\* the entropy was computed with all four chaotic conditions triggered
C17_Witness ==
  \E t \in Tabs : /\ last.op = "calculateEntropyScore"
                  /\ last.tab = t
                  /\ tabStates[t].directionChanges > DIRECTION_CHANGE_CHAOTIC
                  /\ tabStates[t].rageClickCount > RAGE_CLICK_THRESHOLD
                  /\ tabStates[t].scrollSpeed > SCROLL_SPEED_CHAOTIC
                  /\ tabStates[t].clickFrequency > CLICK_FREQUENCY_CHAOTIC
                  /\ tabStates[t].entropyScore = 10

\* C18: a reportBehavior call that follows another with no scroll or click
\* event in between computes scrollSpeed 0, clickFrequency 0, rageClickCount 0
\* and the directionChanges the first call's decay left.
C18_SecondSampleQuiet ==
  [][\A d \in MonitorSteps :
       ReportTimer(d) /\ monitor.quietReports = 1 =>
         LET m == later(monitor, d)
         IN  /\ calculateScrollSpeed(m) = 0
             /\ calculateClickFrequency(m) = 0
             /\ m.rageClickCount = 0
             /\ m.directionChanges =
                  (IF monitor.sample.sent
                     THEN Max(0, monitor.sample.directionChanges - 1)
                     ELSE monitor.sample.directionChanges)]_vars

C20_DeepReadingIdle ==
  [][\A t \in Tabs :
       IdleTick(t) /\ tabStates[t].pageType = "document" =>
         LET s == afterInterval(tabStates[t])
         IN  /\ (s.sinceActivity > DEEP_READING_THRESHOLD =>
                   /\ calculateDSIDelta(s).delta = -400
                   /\ tabStates'[t].isDeepReading)
             /\ (tabStates[t].isDeepReading => tabStates'[t].isDeepReading)
             /\ (tabStates[t].dsi <= 5000 =>
                   tabStates'[t].dsi >= 0 /\ tabStates'[t].dsi <= 5000)]_vars

\* twenty idle ticks of a document session that started at score 0
C20_Witness ==
  \E t \in Tabs : /\ nTicks = 20
                  /\ last.op = "tick"
                  /\ tabStates[t].pageType = "document"
                  /\ tabStates[t].sinceActivity > DEEP_READING_THRESHOLD
                  /\ tabStates[t].isDeepReading
                  /\ tabStates[t].dsi = 0

\* C21: with a scroll of 4000 px/s reported before every tick of a social
\* session in Standard mode, every tick's entropy has the chaotic-scroll
\* component, every tick raises the score, and the level goes from 0 to 1 on
\* exactly the tick whose score first exceeds LEVEL_1_THRESHOLD.
C21_ScrollRaisesLevel ==
  [][\A t \in Tabs :
       /\ ScrollTick(t)
       /\ ~tabStates[t].isTherapyActive
       /\ ~tabStates[t].isReaderModeActive
       => /\ tabStates'[t].entropyScore >= 3
          /\ tabStates'[t].dsi > tabStates[t].dsi
          /\ (tabStates[t].currentLevel = 0 =>
                tabStates'[t].currentLevel =
                  (IF tabStates'[t].dsi > LEVEL_1_THRESHOLD THEN 1 ELSE 0))]_vars

\* the four consumed features of a state object are zero
featuresZero(s) ==
  /\ s.scrollSpeed = 0
  /\ s.clickFrequency = 0
  /\ s.directionChanges = 0
  /\ s.rageClickCount = 0

\* C22: when the delivery of an INTERVENTION or SUGGESTION fails, the tick
\* that sent it keeps the score and level it set and goes on to reset the
\* features and store the snapshot, and the tick that follows the failure
\* with the level unchanged does not send that kind of event again.
C22_FailureSwallowed ==
  [][\A t \in Tabs :
       /\ \A inv \in BagToSet(pending[t]) :
            DeliveryFails(t, inv) /\ inv.handler = "updateDSI" =>
              /\ tabStates'[t].dsi = tabStates[t].dsi
              /\ tabStates'[t].currentLevel = tabStates[t].currentLevel
              /\ (inv.pc # "awaitTherapyIntervention" =>
                    /\ featuresZero(tabStates'[t])
                    /\ BagIn([inv EXCEPT !.pc = "awaitStorage"], pending'[t])
                    /\ KeysOf(t, SnapshotKeys) \subseteq storage')
       /\ (/\ last.tab = t
           /\ IdleTick(t)
           /\ tabStates'[t].currentLevel = tabStates[t].currentLevel
           => /\ (last.op = "INTERVENTION failed" => Interventions(emitted') = <<>>)
              /\ (last.op = "SUGGESTION failed" => Suggestions(emitted') = <<>>))]_vars

\* the SUGGESTION of a tick was not delivered; the tick went on, the score
\* still asks for the suggestion and the flag keeps it from being sent again
C22_Witness ==
  \E t \in Tabs : /\ last.op = "SUGGESTION failed"
                  /\ last.tab = t
                  /\ tabStates[t].suggestionShown
                  /\ deriveSuggestion(tabStates[t]) = "gentle"
                  /\ featuresZero(tabStates[t])
                  /\ <<"dsi", t>> \in storage

\* C23: a BEHAVIOR_DATA message that carries a negative rate or counter is
\* dropped: it leaves the session's state object as it was.
C23_InvalidDropped ==
  [][\A t \in Tabs : \A data \in InvalidReports :
       BEHAVIOR_DATA(t, data) /\ hasState(t) => tabStates'[t] = tabStates[t]]_vars

\* neither lock is set in state object s
isStandard(s) == ~s.isTherapyActive /\ ~s.isReaderModeActive

\* the INTERVENTION a handler sends when it moves tab t from level old to new
levelChangeEvents(t, old, new) ==
  IF new # old THEN <<Intervention(t, new)>> ELSE <<>>

TickCompletes(t) ==
  \/ /\ TimerFires(t)
     /\ updateDSI(t, getTabState(t)).pc \in {"done", "awaitStorage"}
  \/ /\ IdleTick(t)
     /\ updateDSI(t, afterInterval(tabStates[t])).pc \in {"done", "awaitStorage"}
  \/ \E inv \in BagToSet(pending[t]) :
       /\ Resume(t, inv)
       /\ inv.handler = "updateDSI"
       /\ awaitsDelivery(inv)
       /\ ~inv.detached

\* C25: after every tick, in every mode, scrollSpeed, clickFrequency,
\* directionChanges and rageClickCount of the session are zero.
C25_FeaturesConsumed ==
  [][\A t \in Tabs : TickCompletes(t) => featuresZero(tabStates'[t])]_vars

\* C26: after every tick that leaves the score below LEVEL_2_THRESHOLD, in
\* every mode, suggestionShown is false.
C26_SuggestionFlagReset ==
  [][\A t \in Tabs :
       TickCompletes(t) /\ tabStates'[t].dsi < LEVEL_2_THRESHOLD =>
         ~tabStates'[t].suggestionShown]_vars

\* C27: a tick that runs with the therapy lock set changes the score by
\* -(THERAPY_BONUS + 0.05 * score), clamped, whatever the features, the page
\* type and the reader flag: the score does not rise, it falls if it was
\* above 0, and isIdle and isDeepReading, which only the Standard branch
\* writes, are left alone.
C27_TherapyDecay ==
  [][\A t \in Tabs :
       IdleTick(t) /\ tabStates[t].isTherapyActive =>
         /\ tabStates'[t].dsi =
              Max(MIN_DSI, tabStates[t].dsi
                           - (THERAPY_BONUS + TimesDecayFactor(tabStates[t].dsi)))
         /\ tabStates'[t].dsi <= tabStates[t].dsi
         /\ (tabStates[t].dsi > 0 => tabStates'[t].dsi < tabStates[t].dsi)
         /\ tabStates'[t].isIdle = tabStates[t].isIdle
         /\ tabStates'[t].isDeepReading = tabStates[t].isDeepReading]_vars

\* a therapy tick of a session that also has the reader lock set and a yo-yo
\* scroll reported: 100 went down by 3 + 5
C27_Witness ==
  \E t \in Tabs : /\ last.op = "tick"
                  /\ last.tab = t
                  /\ tabStates[t].isTherapyActive
                  /\ tabStates[t].isReaderModeActive
                  /\ tabStates[t].directionChanges > DIRECTION_CHANGE_CHAOTIC
                  /\ tabStates[t].dsi = 92000

inReaderBand(dsi) == dsi >= READER_MODE_TARGET_MIN /\ dsi <= READER_MODE_TARGET_MAX

\* C28: a tick with the reader lock set and the therapy lock clear leaves a
\* score inside [45, 55] where it is, moves a score above 55 down and a score
\* below 45 up, in both cases without jumping over the band; so ticks alone
\* bring the score into the band and keep it there.
C28_ReaderBand ==
  [][\A t \in Tabs :
       IdleTick(t) /\ tabStates[t].isReaderModeActive /\ ~tabStates[t].isTherapyActive =>
         /\ tabStates'[t].isReaderModeActive /\ ~tabStates'[t].isTherapyActive
         /\ (inReaderBand(tabStates[t].dsi) => tabStates'[t].dsi = tabStates[t].dsi)
         /\ (tabStates[t].dsi > READER_MODE_TARGET_MAX =>
               /\ tabStates'[t].dsi < tabStates[t].dsi
               /\ tabStates'[t].dsi >= READER_MODE_TARGET_MIN)
         /\ (tabStates[t].dsi < READER_MODE_TARGET_MIN =>
               /\ tabStates'[t].dsi > tabStates[t].dsi
               /\ tabStates'[t].dsi <= READER_MODE_TARGET_MAX)]_vars

\* a document session that started at 56 has come into the band, 0.054 a tick
C28_Witness ==
  \E t \in Tabs : /\ last.op = "tick"
                  /\ last.tab = t
                  /\ tabStates[t].isReaderModeActive
                  /\ ~tabStates[t].isTherapyActive
                  /\ tabStates[t].pageType = "document"
                  /\ tabStates[t].dsi = 54974

\* the delta of the Standard branch before the level-1 floor is applied
standardDelta(s) == IF isMeaningfulActivity(s) THEN ActiveDelta(s) ELSE IdleDelta(s)

\* C29: a Standard tick that starts at level 1 with the score at or above 25
\* ends with the score at or above 25; when the score is above 25 and the
\* negative delta would take it below, the score ends exactly at 25; when the
\* score is at or below 25 a negative delta leaves it where it is.
C29_Level1Floor ==
  [][\A t \in Tabs :
       /\ IdleTick(t)
       /\ isStandard(tabStates[t])
       /\ tabStates[t].currentLevel = 1
       => LET s == afterInterval(tabStates[t])
              raw == standardDelta(s)
          IN  /\ (s.dsi >= LEVEL_1_FLOOR => tabStates'[t].dsi >= LEVEL_1_FLOOR)
              /\ (s.dsi > LEVEL_1_FLOOR /\ raw < 0 /\ s.dsi + raw < LEVEL_1_FLOOR
                    => tabStates'[t].dsi = LEVEL_1_FLOOR)
              /\ (s.dsi <= LEVEL_1_FLOOR /\ raw < 0 => tabStates'[t].dsi = s.dsi)]_vars

\* a level-1 session past the grace window whose natural decay was stopped
\* at the floor
C29_Witness ==
  \E t \in Tabs : /\ last.op = "tick"
                  /\ last.tab = t
                  /\ isStandard(tabStates[t])
                  /\ tabStates[t].currentLevel = 1
                  /\ tabStates[t].pageType = "other"
                  /\ tabStates[t].sinceActivity > DECAY_DELAY + UPDATE_INTERVAL
                  /\ ~isMeaningfulActivity(tabStates[t])
                  /\ tabStates[t].dsi = LEVEL_1_FLOOR

\* the tick on state s takes case C of the idle branch: Standard mode, nothing
\* meaningful reported, past the grace window, not deep reading
isNaturalDecay(s) ==
  /\ isStandard(s)
  /\ ~isMeaningfulActivity(s)
  /\ ~IdleGrace(s)
  /\ ~IdleDeepReading(s)

isOrderly(s) ==
  /\ s.directionChanges <= DIRECTION_CHANGE_CHAOTIC
  /\ s.rageClickCount <= RAGE_CLICK_THRESHOLD
  /\ s.scrollSpeed <= SCROLL_SPEED_THRESHOLD
  /\ s.clickFrequency <= CLICK_FREQUENCY_THRESHOLD

\* C31: a Standard tick with meaningful, orderly activity and a score
\* outside the flow band [40, 60] does not raise a score above 60 and does
\* not lower a score below 40.
C31_TowardFlowBand ==
  [][\A t \in Tabs :
       /\ IdleTick(t)
       /\ isStandard(tabStates[t])
       /\ isMeaningfulActivity(tabStates[t])
       /\ isOrderly(tabStates[t])
       /\ ~isInFlowZone(tabStates[t].dsi)
       => /\ (tabStates[t].dsi > FLOW_ZONE_MAX => tabStates'[t].dsi <= tabStates[t].dsi)
          /\ (tabStates[t].dsi < FLOW_ZONE_MIN => tabStates'[t].dsi >= tabStates[t].dsi)]_vars

\* a chaotic threshold or the elevated click threshold is exceeded
exceedsThreshold(s) ==
  \/ s.directionChanges > DIRECTION_CHANGE_CHAOTIC
  \/ s.rageClickCount > RAGE_CLICK_THRESHOLD
  \/ s.scrollSpeed > SCROLL_SPEED_CHAOTIC
  \/ s.clickFrequency > CLICK_FREQUENCY_THRESHOLD

\* C32: a Standard tick with meaningful activity that exceeds a chaotic
\* threshold or the elevated click threshold raises the score by one of the
\* four increments times the weight of the page category; with chaotic
\* reversals or rage clicks the rise is at least the rise that an elevated
\* scroll or click alone gives on that category.
C32_ChaoticIncrements ==
  [][\A t \in Tabs :
       /\ IdleTick(t)
       /\ isStandard(tabStates[t])
       /\ isMeaningfulActivity(tabStates[t])
       /\ exceedsThreshold(tabStates[t])
       => LET w == getContextCoefficient(tabStates[t].pageType)
              delta == tabStates'[t].dsi - tabStates[t].dsi
          IN  /\ delta > 0
              /\ \E inc \in {SCROLL_CHAOTIC_INCREMENT, CLICK_CHAOTIC_INCREMENT,
                             SCROLL_INCREMENT, CLICK_INCREMENT} :
                   delta = Scaled(inc, w)
              /\ (\/ tabStates[t].directionChanges > DIRECTION_CHANGE_CHAOTIC
                  \/ tabStates[t].rageClickCount > RAGE_CLICK_THRESHOLD)
                 => /\ delta >= Scaled(SCROLL_INCREMENT, w)
                    /\ delta >= Scaled(CLICK_INCREMENT, w)]_vars

\* rage clicks on a social page took 30 to 40.4 (8 * 1.3) in the first tick
C32_Witness ==
  \E t \in Tabs : /\ last.op = "tick"
                  /\ last.tab = t
                  /\ nTicks = 1
                  /\ isStandard(tabStates[t])
                  /\ tabStates[t].pageType = "social"
                  /\ tabStates[t].dsi = 40400

\* the distance covered from the n-th sample of the window to its last one
RECURSIVE distanceFrom(_, _)
distanceFrom(events, n) ==
  IF n >= Len(events) THEN 0
  ELSE Abs(events[n + 1].position - events[n].position) + distanceFrom(events, n + 1)

\* the time from the first to the last sample of the window, in ms
spanOf(events) == IF Len(events) = 0 THEN 0 ELSE events[1].back - events[Len(events)].back

\* C33 as stated: the reported scrollSpeed is the distance covered by the
\* samples of the scroll window divided by the window's 0.5 s, and the
\* reported clickFrequency is the number of clicks of the click window
\* divided by its 1 s.
C33_Original ==
  [][\A d \in MonitorSteps :
       ReportTimer(d) =>
         LET m == later(monitor, d)
         IN  /\ calculateScrollSpeed(m) * SCROLL_WINDOW_SIZE
                  = distanceFrom(m.scrollEvents, 1) * 1000
             /\ calculateClickFrequency(m) * CLICK_WINDOW_SIZE
                  = Len(m.clickEvents) * 1000]_vars

\* C33 amended: the reported scrollSpeed is the distance covered by the
\* samples the last scroll left in the window divided by the time from the
\* first to the last of them (0 with fewer than two samples), and the
\* reported clickFrequency is the number of clicks the last click left in
\* the window divided by the window's 1 s.
C33_SpeedOverSpan ==
  [][\A d \in MonitorSteps :
       ReportTimer(d) =>
         LET m == later(monitor, d)
             speed == calculateScrollSpeed(m)
             distance == distanceFrom(m.scrollEvents, 1)
             span == spanOf(m.scrollEvents)
         IN  /\ (Len(m.scrollEvents) < 2 => speed = 0)
             /\ (Len(m.scrollEvents) >= 2 =>
                   /\ span > 0
                   /\ speed * span <= distance * 1000
                   /\ distance * 1000 < (speed + 1) * span)
             /\ calculateClickFrequency(m) * CLICK_WINDOW_SIZE
                  = Len(m.clickEvents) * 1000]_vars

\* a report was sent with two samples in the scroll window, 300 px and
\* 400 ms apart
C33_Witness ==
  /\ monitor.sample.sent
  /\ monitor.quietReports = 1
  /\ Len(monitor.scrollEvents) = 2
  /\ spanOf(monitor.scrollEvents) = 400
  /\ distanceFrom(monitor.scrollEvents, 1) = 300

\* C34: a report computed when the last click is at least the click window
\* (1 s) back and the last scroll at least the scroll window (0.5 s) back
\* finds both rates 0 and sends nothing.
C34_WindowEmpties ==
  [][\A d \in MonitorSteps :
       LET m == later(monitor, d)
       IN  /\ ReportTimer(d)
           /\ (m.nClicks = 0 \/ m.sinceClick >= CLICK_WINDOW_SIZE)
           /\ (m.nScrolls = 0 \/ m.sinceScroll >= SCROLL_WINDOW_SIZE)
           => /\ calculateScrollSpeed(m) = 0
              /\ calculateClickFrequency(m) = 0
              /\ ~monitor'.sample.sent]_vars

\* C35 as stated: a Standard session at level 1 that stays idle is at
\* level 0 after finitely many ticks.
C35_Original ==
  \A t \in Tabs : (tabStates[t].currentLevel = 1) ~> (tabStates[t].currentLevel = 0)

\* C35 amended: a tick of an idle Standard session at level 1 ends at level 0
\* exactly when the score is at or below the exit threshold (20); with a
\* score above 20 the tick leaves the score at or above the floor (25), or
\* where it was below the floor, and the level at 1 or above.
C35_Level1Stays ==
  [][\A t \in Tabs :
       /\ QuietTick(t)
       /\ isStandard(tabStates[t])
       /\ ~isMeaningfulActivity(tabStates[t])
       /\ tabStates[t].currentLevel = 1
       => /\ (tabStates[t].dsi <= level1ExitThreshold => tabStates'[t].currentLevel = 0)
          /\ (tabStates[t].dsi > level1ExitThreshold =>
                /\ tabStates'[t].currentLevel >= 1
                /\ tabStates'[t].dsi <= tabStates[t].dsi
                /\ tabStates'[t].dsi >= Min(tabStates[t].dsi, LEVEL_1_FLOOR))]_vars

\* a level-1 session long past the grace window at rest on the floor
C35_Witness ==
  \E t \in Tabs : /\ last.op = "tick"
                  /\ last.tab = t
                  /\ last.level0 = 1
                  /\ tabStates[t].currentLevel = 1
                  /\ tabStates[t].sinceActivity = MaxSince
                  /\ tabStates[t].dsi = LEVEL_1_FLOOR

\* C36: a behaviour report does not lower the directionChanges and the
\* rageClickCount the session holds for its next tick, as it does not lower
\* scrollSpeed and clickFrequency.
C36_CountsKept ==
  [][\A t \in Tabs : \A data \in Reports :
       BEHAVIOR_DATA(t, data) =>
         /\ tabStates'[t].scrollSpeed >= getTabState(t).scrollSpeed
         /\ tabStates'[t].clickFrequency >= getTabState(t).clickFrequency
         /\ tabStates'[t].directionChanges >= getTabState(t).directionChanges
         /\ tabStates'[t].rageClickCount >= getTabState(t).rageClickCount]_vars

\* C37: when a tick that waited for the delivery of its event goes on, a
\* report that arrived during the wait and that no tick has scored yet is
\* still in the session's features afterwards.
C37_ReportSurvivesReset ==
  [][\A t \in Tabs : \A inv \in BagToSet(pending[t]) :
       /\ Resume(t, inv)
       /\ inv.handler = "updateDSI"
       /\ awaitsDelivery(inv)
       /\ ~inv.detached
       /\ nMsgs = nTicks + 1
       => tabStates'[t].scrollSpeed >= FastScroll.scrollSpeed]_vars

\* C39: startDSITimer on a session whose state already exists leaves the
\* context category, the context weight, the score, the level and the mode
\* flags of that state as they were.
C39_TimerKeepsState ==
  [][\A t \in Tabs :
       startDSITimer(t) /\ hasState(t) =>
         /\ tabStates'[t].pageType = tabStates[t].pageType
         /\ tabStates'[t].contextCoefficient = tabStates[t].contextCoefficient
         /\ tabStates'[t].dsi = tabStates[t].dsi
         /\ tabStates'[t].currentLevel = tabStates[t].currentLevel
         /\ tabStates'[t].isReaderModeActive = tabStates[t].isReaderModeActive
         /\ tabStates'[t].isTherapyActive = tabStates[t].isTherapyActive]_vars

\* C38: the exchange that the delivery of one level-change event starts
\* comes to an end: whenever an INTERVENTION message is on its way to the
\* page, a state follows in which no message is in flight in either
\* direction.
C38_ExchangeEnds ==
  (manager.toContent # <<>>) ~>
    (manager.toContent = <<>> /\ manager.toBackground = <<>>)

=============================================================================
